---- MODULE Spec2Model ----
(***************************************************************************)
(* Runtime self-protection controller of localsports (rasp.cpp): the       *)
(* controller's global state, the debugger-monitoring thread, the security *)
(* event log and the fail-closed shutdown path, as a state machine whose   *)
(* steps are the shared-memory accesses of each thread.                    *)
(***************************************************************************)
EXTENDS Integers, Sequences, FiniteSets, TLC

\* ----------------------------------------------------------------- bounds
\* calls the caller threads may issue in one run
MaxOps == 2
\* positive DetectDebugger() results the monitoring loops may see in one run
MaxDetect == 1
\* thread objects that can exist at the same time
MaxMon == 2
\* calls of the log's functions in one run
MaxLogOps == 3
\* calls of the AppKey functions in one run
MaxKeyOps == 4
\* largest size a SecureBuffer is given
MaxSize == 2
\* regions the allocator has; a freed one is handed out again
MaxRegions == 3
\* longest value sealed
MaxLen == 2
\* calls of the session's functions
MaxAuthOps == 3
\* bits of an int (the code's are 32; the algorithms are the same at any width)
Width == 4

\* ---------------------------------------------------------------- threads
\* caller threads: 0 is main, 1 a second caller that Init leaves switched off
Callers == {0, 1}
\* slots for the threads StartDebuggerMonitoring creates
Mon == 2..(MaxMon + 1)
Threads == Callers \cup Mon
\* a std::thread that owns no thread / a std::mutex nobody holds
NoThread == -1

\* ----------------------------------------------------------------- values
\* RASPConfig's default member initialisers
DefaultConfig ==
    [enableDebuggerDetection |-> TRUE,
     enableChecksumVerification |-> TRUE,
     enableHookDetection |-> TRUE,
     autoTerminateOnThreat |-> TRUE,
     monitoringIntervalMs |-> 5000,
     logFilePath |-> "rasp_security.log"]

\* the intervals and log paths the callers use
Intervals == {5000, 1000}
LogPaths == {"rasp_security.log", "test_rasp.log"}

\* the configurations a caller passes to ConfigureRASP: the default
\* configuration with at most one of its six fields changed
FieldsChanged(c) ==
    {f \in DOMAIN DefaultConfig : c[f] # DefaultConfig[f]}
Configs ==
    {c \in [enableDebuggerDetection : BOOLEAN,
            enableChecksumVerification : BOOLEAN,
            enableHookDetection : BOOLEAN,
            autoTerminateOnThreat : BOOLEAN,
            monitoringIntervalMs : Intervals,
            logFilePath : LogPaths] :
        Cardinality(FieldsChanged(c)) <= 1}

\* digests: "" is "no baseline" / "could not be computed"; "aa" is the digest of
\* the running image, "bb" any other digest
Checksums == {"", "aa", "bb"}
\* what CalculateTextSectionChecksum can return: the digest, or "" on every
\* path that cannot read or parse the image
CalculateTextSectionChecksum == {"aa", ""}

\* what DetectIATHooks can return: -1 (no module handle), 0, or the number of
\* redirected entries; the non-Windows build returns 0
DetectIATHooks == {-1, 0, 2}
\* DetectPLTHooks: the callback counts nothing, hookCount stays 0
DetectPLTHooks == 0

\* callbacks: none, the flag-setting lambda of the tests, InitializeRASP's alert
Callbacks == {"null", "test", "alert"}

\* the arguments callers pass to StartDebuggerMonitoring: the tests' lambda
\* with 1000 ms, and no callback with the default interval
StartArgs == {[cb |-> "test", interval |-> 1000], [cb |-> "null", interval |-> 5000]}

Event(type, sev) == [eventType |-> type, severity |-> sev]

\* a caller's frame: the arguments of the call in progress and its locals
NoCall ==
    [op |-> "none", checksum |-> "", autoTerm |-> FALSE, cfg |-> DefaultConfig,
     cb |-> "null", interval |-> 0, allPassed |-> TRUE, failed |-> FALSE,
     spawned |-> NoThread, digest |-> "", hookCount |-> 0]

VARIABLES
    g_raspActive,               \* std::atomic<bool>
    g_debuggerMonitorRunning,   \* std::atomic<bool>
    g_debuggerMonitorThread,    \* the thread the handle owns, or NoThread
    g_config,                   \* RASPConfig (plain, unsynchronised)
    g_eventLog,                 \* std::vector<SecurityEvent>
    g_logMutex,                 \* the thread holding the mutex, or NoThread
    g_expectedChecksum,         \* std::string
    proc,                       \* "running", "exited" (std::exit), "aborted" (std::terminate, fault)
    pc,                         \* each thread's position
    stack,                      \* each thread's return addresses
    evt,                        \* each thread's event being logged
    term,                       \* each thread's HandleCriticalEvent terminateApp argument
    cb,                         \* the callback each monitoring thread captured
    interval,                   \* the interval each monitoring thread captured
    call,                       \* each caller's frame
    ret,                        \* each caller's return value: "none", "true", "false"
    nOps,                       \* calls issued so far
    nDetect,                    \* positive detections seen by the monitoring loops
    appended,                   \* history: the events whose append completed since the last clear
    slept,                      \* history: whether each monitoring loop slept since it started or last tested its flag
    snap,                       \* the vector GetSecurityEventLog last returned to each caller
    logFileOpens,               \* whether an open of the log file for appending succeeds
    g_appKey,                   \* the bytes of the application key's SecureBuffer
    g_appKeyInitialized,
    passphrase,                 \* the std::string local of AppKey_InitFromEnvOrPrompt
    kpc,                        \* where the thread that uses the application key is
    kres,                       \* what its last call returned or threw
    nKeyOps,                    \* calls of the AppKey functions so far
    initReturnedTrue,           \* history: a call of AppKey_InitFromEnvOrPrompt has returned true
    firstKey,                   \* history: the key bytes when it first did
    heap,                       \* the allocator's regions: live, freed or never used, and their bytes
    bufs,                       \* the SecureBuffer objects: data_, size_, and whether they live
    bres,                       \* how the last SecureBuffer operation ended
    released,                   \* history: the operations that freed a region holding non-zero bytes
    plaintext,                  \* the value to be stored in a database column
    key32,                      \* the key it is sealed under
    aad,                        \* the additional authenticated data it is sealed with
    sealed,                     \* the string in the column
    origin,                     \* how that string came to be
    tampered,                   \* whether a byte of it was changed since
    dfn, dkey, daad,            \* the decrypting function called on it, and its key and aad
    result,                     \* what that call returned
    users,                      \* the rows of the users table, by username
    g_db,                       \* whether the database is open
    g_isAuthed,                 \* static bool
    g_currentUser,              \* static char[32], as the C string it holds
    lres,                       \* the last call of the session's functions and what it returned
    created,                    \* history: how each row came to be, and the row then
    nAuthOps,                   \* calls of the session's functions so far
    opA, opB,                   \* the int arguments of an arithmetic call
    opFn,                       \* the function called on them
    opResult                    \* the int it returned

vars == <<g_raspActive, g_debuggerMonitorRunning, g_debuggerMonitorThread, g_config,
          g_eventLog, g_logMutex, g_expectedChecksum, proc, pc, stack, evt, term,
          cb, interval, call, ret, nOps, nDetect, appended, slept, snap, logFileOpens,
          g_appKey, g_appKeyInitialized, passphrase, kpc, kres, nKeyOps,
          initReturnedTrue, firstKey, heap, bufs, bres, released,
          plaintext, key32, aad, sealed, origin, tampered, dfn, dkey, daad, result,
          users, g_db, g_isAuthed, g_currentUser, lres, created, nAuthOps,
          opA, opB, opFn, opResult>>

\* groups for UNCHANGED
flags == <<g_raspActive, g_debuggerMonitorRunning, g_debuggerMonitorThread>>
cfgs == <<g_config, g_expectedChecksum>>
logs == <<g_eventLog, g_logMutex>>
captured == <<cb, interval>>
frames == <<call, ret>>
counters == <<nOps, nDetect>>
\* what the controller's own functions never touch
raspVars == <<flags, cfgs, logs, proc, pc, stack, evt, term, captured, frames, counters,
              appended, slept, snap, logFileOpens>>
keyVars == <<g_appKey, g_appKeyInitialized, passphrase, kpc, kres, nKeyOps,
             initReturnedTrue, firstKey>>
bufVars == <<heap, bufs, bres, released>>
\* what the controller and its log never touch
cryptoVars == <<plaintext, key32, aad, sealed, origin, tampered, dfn, dkey, daad, result>>
authVars == <<users, g_db, g_isAuthed, g_currentUser, lres, created, nAuthOps>>
arithVars == <<opA, opB, opFn, opResult>>
rest == <<keyVars, bufVars, cryptoVars, authVars, arithVars>>
notKey == <<raspVars, bufVars, cryptoVars, authVars, arithVars>>
notBuf == <<raspVars, keyVars, cryptoVars, authVars, arithVars>>
notCrypto == <<raspVars, keyVars, bufVars, authVars, arithVars>>
notAuth == <<raspVars, bufVars, cryptoVars, arithVars>>
notArith == <<raspVars, keyVars, bufVars, cryptoVars, authVars>>
others == <<slept, snap, logFileOpens, rest>>

NoEvent == Event("", 0)

InitWith(callerPc) ==
    /\ g_raspActive = FALSE
    /\ g_debuggerMonitorRunning = FALSE
    /\ g_debuggerMonitorThread = NoThread
    /\ g_config = DefaultConfig
    /\ g_eventLog = <<>>
    /\ g_logMutex = NoThread
    /\ g_expectedChecksum = ""
    /\ proc = "running"
    /\ pc = [t \in Threads |-> IF t \in Callers THEN callerPc[t] ELSE "none"]
    /\ stack = [t \in Threads |-> <<>>]
    /\ evt = [t \in Threads |-> NoEvent]
    /\ term = [t \in Threads |-> FALSE]
    /\ cb = [m \in Mon |-> "null"]
    /\ interval = [m \in Mon |-> 0]
    /\ call = [c \in Callers |-> NoCall]
    /\ ret = [c \in Callers |-> "none"]
    /\ nOps = 0
    /\ nDetect = 0
    /\ appended = <<>>
    /\ slept = [m \in Mon |-> FALSE]
    /\ snap = [c \in Callers |-> <<>>]

\* --------------------------------------------------- the application key
\* AES-256 key size: g_appKey.resize(32)
KeySize == 32
\* the values of LS_APP_PASSPHRASE and of the line typed at the prompt: the
\* empty string (or an unset variable) and three passphrases, as character codes
Passphrases == {<<>>, <<112>>, <<115, 51>>, <<51, 115>>}
Zeros(n) == [i \in 1..n |-> 0]
RECURSIVE SumSeq(_)
SumSeq(q) == IF q = <<>> THEN 0 ELSE Head(q) + SumSeq(Tail(q))
\* PKCS5_PBKDF2_HMAC with the fixed salt, by what matters of it here: KeySize
\* bytes that depend on every character of the passphrase and on nothing else
DeriveKeyFromPassphrase(pw) ==
    [i \in 1..KeySize |-> (SumSeq(pw) * (2 * i + 1) + 31 * Len(pw) + i) % 256]
NoResult == [op |-> "none", ok |-> FALSE, key |-> <<>>, err |-> ""]

\* static SecureBuffer g_appKey; static bool g_appKeyInitialized = false
InitKey ==
    /\ g_appKey = <<>>
    /\ g_appKeyInitialized = FALSE
    /\ passphrase = <<>>
    /\ kpc = "idle"
    /\ kres = NoResult
    /\ nKeyOps = 0
    /\ initReturnedTrue = FALSE
    /\ firstKey = <<>>

\* ------------------------------------------------------------ SecureBuffer
\* two SecureBuffer objects, so that one can be moved into the other
Objs == {"a", "b"}
\* a byte of a secret (0xAA), as against a zeroed byte
Secret == 170
\* data_ = nullptr, size_ = 0
NullBuf == [alive |-> TRUE, data |-> 0, size |-> 0]
NoBuf == [alive |-> FALSE, data |-> 0, size |-> 0]
\* how an operation on object o ended: whether operator new[] failed in it,
\* and the exception that left it
Outcome(o, failed, ex) == [obj |-> o, allocFailed |-> failed, thrown |-> ex]

InitBuf ==
    /\ heap = [r \in 1..MaxRegions |-> [st |-> "unused", bytes |-> <<>>]]
    /\ bufs = [o \in Objs |-> NoBuf]
    /\ bres = Outcome("a", FALSE, "")
    /\ released = {}

\* ------------------------------------------------------------ field cipher
\* strings and buffers are sequences of bytes, 0..255
\* "GCM1:"
Prefix == <<71, 67, 77, 49, 58>>
\* "[DECRYPT-ERROR]"
DecryptError == <<91, 68, 69, 67, 82, 89, 80, 84, 45, 69, 82, 82, 79, 82, 93>>
\* unsigned char iv[12], unsigned char tag[16]
IvLen == 12
TagLen == 16
\* key32 = nullptr
NullKey == 0
\* two 32-byte keys, each named by a number
Keys == {17, 99}
\* the values RAND_bytes gives the IV
IVs == {[i \in 1..IvLen |-> 1], [i \in 1..IvLen |-> (17 * i) % 256]}
\* the aad arguments: "" as the application passes it, and "u"
AADs == {<<>>, <<117>>}
RECURSIVE SeqsUpTo(_, _)
SeqsUpTo(S, n) ==
    IF n = 0 THEN {<<>>}
    ELSE SeqsUpTo(S, n - 1) \cup
         {Append(q, x) : q \in {r \in SeqsUpTo(S, n - 1) : Len(r) = n - 1}, x \in S}
\* the values sealed: every string of up to MaxLen of the bytes "A" and 0xC8
Plaintexts == SeqsUpTo({65, 200}, MaxLen) \cup {DecryptError}
HasPrefix(v) == Len(v) >= Len(Prefix) /\ SubSeq(v, 1, Len(Prefix)) = Prefix
Body(v) == SubSeq(v, Len(Prefix) + 1, Len(v))

\* the base64 alphabet: the character of a 6-bit value, and back (-1: none)
B64Char(v) ==
    IF v < 26 THEN 65 + v
    ELSE IF v < 52 THEN 97 + (v - 26)
    ELSE IF v < 62 THEN 48 + (v - 52)
    ELSE IF v = 62 THEN 43 ELSE 47
B64Val(c) ==
    IF c >= 65 /\ c <= 90 THEN c - 65
    ELSE IF c >= 97 /\ c <= 122 THEN c - 97 + 26
    ELSE IF c >= 48 /\ c <= 57 THEN c - 48 + 52
    ELSE IF c = 43 THEN 62
    ELSE IF c = 47 THEN 63 ELSE -1
\* BIO_f_base64 with BIO_FLAGS_BASE64_NO_NL, writing: three bytes give four
\* characters, a last group of one or two bytes is padded with "="
RECURSIVE B64Encode(_)
B64Encode(b) ==
    IF b = <<>> THEN <<>>
    ELSE IF Len(b) = 1
    THEN <<B64Char(b[1] \div 4), B64Char((b[1] % 4) * 16), 61, 61>>
    ELSE IF Len(b) = 2
    THEN <<B64Char(b[1] \div 4), B64Char((b[1] % 4) * 16 + b[2] \div 16),
           B64Char((b[2] % 16) * 4), 61>>
    ELSE <<B64Char(b[1] \div 4), B64Char((b[1] % 4) * 16 + b[2] \div 16),
           B64Char((b[2] % 16) * 4 + b[3] \div 64), B64Char(b[3] % 64)>>
         \o B64Encode(SubSeq(b, 4, Len(b)))
\* the same filter, reading: four characters give three bytes, fewer for a
\* padded last group; text that is not base64 gives no byte
RECURSIVE B64Groups(_)
B64Groups(c) ==
    IF c = <<>> THEN <<>>
    ELSE LET v1 == B64Val(c[1])
             v2 == B64Val(c[2])
             v3 == B64Val(c[3])
             v4 == B64Val(c[4])
             b1 == v1 * 4 + v2 \div 16
             b2 == (v2 % 16) * 16 + v3 \div 4
             b3 == (v3 % 4) * 64 + v4
         IN IF Len(c) = 4 /\ c[3] = 61 /\ c[4] = 61 THEN <<b1>>
            ELSE IF Len(c) = 4 /\ c[4] = 61 THEN <<b1, b2>>
            ELSE <<b1, b2, b3>> \o B64Groups(SubSeq(c, 5, Len(c)))
B64Valid(c) ==
    /\ Len(c) % 4 = 0
    /\ \A i \in 1..Len(c) :
          \/ B64Val(c[i]) >= 0
          \/ c[i] = 61 /\ i >= Len(c) - 1 /\ (i = Len(c) \/ c[Len(c)] = 61)
B64Decode(c) == IF B64Valid(c) THEN B64Groups(c) ELSE <<>>

\* AES-256 in counter mode, by what matters of it here: every byte is shifted
\* by a keystream byte that the key, the IV and the position determine
KeyStream(k, iv, i) == (31 * k + 7 * SumSeq(iv) + 13 * i) % 256
CtrEncrypt(k, iv, p) == [i \in 1..Len(p) |-> (p[i] + KeyStream(k, iv, i)) % 256]
CtrDecrypt(k, iv, c) == [i \in 1..Len(c) |-> (c[i] + 256 - KeyStream(k, iv, i)) % 256]
\* the GCM tag, as an unforgeable one: TagLen bytes that differ whenever the
\* key, the IV or the aad differ, or a byte of the ciphertext does (the last
\* byte of the tag sums the ciphertext bytes the others have no room for)
GcmTag(k, iv, a, c) ==
    LET head == <<k % 256, SumSeq(iv) % 256, Len(a), SumSeq(a) % 256, Len(c)>> IN
    [i \in 1..TagLen |->
        IF i <= Len(head) THEN head[i]
        ELSE IF i = TagLen
        THEN IF Len(c) < TagLen - Len(head) THEN 0
             ELSE SumSeq(SubSeq(c, TagLen - Len(head), Len(c))) % 256
        ELSE IF i - Len(head) <= Len(c) THEN c[i - Len(head)] ELSE 0]

\* EncryptForDB with the IV RAND_bytes gave: "" for no key or an empty
\* plaintext, else "GCM1:" and the base64 of IV, ciphertext and tag
EncryptForDB(p, k, a, iv) ==
    IF k = NullKey \/ p = <<>> THEN <<>>
    ELSE LET c == CtrEncrypt(k, iv, p) IN
         Prefix \o B64Encode(iv \o c \o GcmTag(k, iv, a, c))

\* DecryptFromDB that takes the tag from the front of the decoded bytes
DecryptFromDB_TagFirst(v, k, a) ==
    IF ~HasPrefix(v) \/ k = NullKey THEN <<>>
    ELSE LET decoded == B64Decode(Body(v)) IN
         IF Len(decoded) < IvLen + TagLen THEN <<>>
         ELSE LET tag == SubSeq(decoded, 1, TagLen)
                  iv == SubSeq(decoded, TagLen + 1, TagLen + IvLen)
                  c == SubSeq(decoded, TagLen + IvLen + 1, Len(decoded))
              IN IF tag = GcmTag(k, iv, a, c) THEN CtrDecrypt(k, iv, c) ELSE DecryptError

\* DecryptFromDB that never looks at the tag
DecryptFromDB_NoTag(v, k, a) ==
    IF ~HasPrefix(v) \/ k = NullKey THEN <<>>
    ELSE LET decoded == B64Decode(Body(v)) IN
         IF Len(decoded) < IvLen + TagLen THEN <<>>
         ELSE LET iv == SubSeq(decoded, 1, IvLen)
                  c == SubSeq(decoded, IvLen + 1, Len(decoded) - TagLen)
              IN CtrDecrypt(k, iv, c)

\* DecryptFromDB: "" without the prefix, without a key or when fewer than 28
\* bytes decode; else the plaintext when the tag verifies and
\* "[DECRYPT-ERROR]" when it does not
DecryptFromDB(v, k, a) ==
    IF ~HasPrefix(v) \/ k = NullKey THEN <<>>
    ELSE LET decoded == B64Decode(Body(v)) IN
         IF Len(decoded) < IvLen + TagLen THEN <<>>
         ELSE LET iv == SubSeq(decoded, 1, IvLen)
                  c == SubSeq(decoded, IvLen + 1, Len(decoded) - TagLen)
                  tag == SubSeq(decoded, Len(decoded) - TagLen + 1, Len(decoded))
              IN IF tag = GcmTag(k, iv, a, c) THEN CtrDecrypt(k, iv, c) ELSE DecryptError

\* decryptMaybe: a value with the prefix is decrypted under the application
\* key with an empty aad, any other value is returned as it is
decryptMaybe(v, k) == IF HasPrefix(v) THEN DecryptFromDB(v, k, <<>>) ELSE v

InitCrypto ==
    /\ sealed = <<>>
    /\ origin = "none"
    /\ tampered = FALSE
    /\ dfn = "none"
    /\ dkey = NullKey
    /\ daad = <<>>
    /\ result = <<>>

\* --------------------------------------------------- users and the session
\* strings are sequences of character codes
\* "admin"
Admin == <<97, 100, 109, 105, 110>>
\* what is typed at "Yeni kullanici adi (3-31)": "abc", and a line that begins
\* with a NUL character (std::getline keeps it)
Usernames == {<<97, 98, 99>>, <<0, 97, 98>>}
\* a user of a database written before the salted hashes
LegacyName == <<108, 101, 103>>
LoginNames == Usernames \cup {Admin, LegacyName}
\* what is typed at "Sifre: "
Passwords == {<<>>, <<112>>, <<113>>}
\* what RAND_bytes puts in salt[16], by two values of it
Salts == {1, 2}
\* const int iters = 150000;
IterCount == 150000
\* if (uname.size() < 3 || uname.size() > 31)
UsernameMin == 3
UsernameMax == 31
\* static char g_currentUser[32]
CurrentUserSize == 32

\* the C string at the front of a std::string's buffer: c_str() read up to the
\* first NUL, as sqlite3_bind_text(.., -1, ..) and "%s" read it
RECURSIVE CStr(_)
CStr(str) ==
    IF str = <<>> \/ Head(str) = 0 THEN <<>> ELSE <<Head(str)>> \o CStr(Tail(str))

\* std::snprintf(g_currentUser, sizeof(g_currentUser), "%s", uname.c_str())
Snprintf(n, str) ==
    LET c == CStr(str) IN IF Len(c) < n THEN c ELSE SubSeq(c, 1, n - 1)

\* a ^ b for non-negative a and b
RECURSIVE Xor(_, _)
Xor(x, y) ==
    IF x = 0 THEN y
    ELSE IF y = 0 THEN x
    ELSE (((x % 2) + (y % 2)) % 2) + 2 * Xor(x \div 2, y \div 2)

\* the low byte of FNV_OFFSET = 0xCBF29CE484222325 and of FNV_PRIME = 0x100000001B3
FnvOffsetLow == 37
FnvPrimeLow == 179
\* fnv1a64, by the low byte of its 64 bits: h ^= c; h *= FNV_PRIME for every
\* character (the low byte of h depends on the low bytes only)
RECURSIVE FnvFold(_, _)
FnvFold(h, str) ==
    IF str = <<>> THEN h
    ELSE FnvFold((Xor(h, Head(str)) * FnvPrimeLow) % 256, Tail(str))

fnv1a64(str) == FnvFold(FnvOffsetLow, str)

\* crypto::DeriveKeyFromPassphrase(pwd, salt, 16, iters, out), when it returns
\* true: PBKDF2-HMAC-SHA256 as a function without collisions
PBKDF2(pwd, salt, iters) == <<pwd, salt, iters>>

\* ct_equal(a, b, 32): CRYPTO_memcmp(a, b, n) == 0
ct_equal(x, y) == x = y

\* a row of users: pass_salt BLOB, pass_hash BLOB, pass_iters INTEGER,
\* passhash INTEGER (legacy); 0, <<>> and -1 stand for NULL
NoUser ==
    [present |-> FALSE, pass_salt |-> 0, pass_hash |-> <<>>, pass_iters |-> 0,
     passhash |-> -1]
\* INSERT INTO users(username, pass_salt, pass_hash, pass_iters, role, active)
Modern(salt, hash32, iters) ==
    [present |-> TRUE, pass_salt |-> salt, pass_hash |-> hash32, pass_iters |-> iters,
     passhash |-> -1]
\* a row that holds the 64-bit hash only
Legacy(h) ==
    [present |-> TRUE, pass_salt |-> 0, pass_hash |-> <<>>, pass_iters |-> 0,
     passhash |-> h]

\* the usernames a row can have: username TEXT bound as a C string
StoredNames == {CStr(u) : u \in LoginNames}
EmptyDB == [n \in StoredNames |-> NoUser]
\* the database file LS_Init finds: none, or one with a legacy user
Databases ==
    {EmptyDB} \cup {[EmptyDB EXCEPT ![LegacyName] = Legacy(fnv1a64(p))] : p \in Passwords}

NoCallYet == [op |-> "none", uname |-> <<>>, pwd |-> <<>>, ok |-> FALSE, kdf |-> TRUE]
\* how a row came to be
Created(by, pwd, row) == [by |-> by, pwd |-> pwd, row |-> row]

\* static sqlite3* g_db = nullptr; static bool g_isAuthed = false;
\* static char g_currentUser[32] = { 0 };
InitSession ==
    /\ g_db = FALSE
    /\ g_isAuthed = FALSE
    /\ g_currentUser = <<>>
    /\ lres = NoCallYet
    /\ created = [n \in StoredNames |->
                     Created(IF users[n].present THEN "before" ELSE "none", <<>>, users[n])]
    /\ nAuthOps = 0

\* ------------------------------------------------- obfuscated arithmetic
RECURSIVE Pow2(_)
Pow2(n) == IF n = 0 THEN 1 ELSE 2 * Pow2(n - 1)
\* the values of an int of Width bits, two's complement
Ints == (0 - Pow2(Width - 1))..(Pow2(Width - 1) - 1)
\* the bits of an int, as a natural number below 2^Width
Unsigned(x) == x % Pow2(Width)
\* the int with the low Width bits of x
Wrap(x) ==
    IF Unsigned(x) >= Pow2(Width - 1) THEN Unsigned(x) - Pow2(Width) ELSE Unsigned(x)

\* a & b for non-negative a and b
RECURSIVE BitAnd(_, _)
BitAnd(x, y) ==
    IF x = 0 \/ y = 0 THEN 0
    ELSE ((x % 2) * (y % 2)) + 2 * BitAnd(x \div 2, y \div 2)

\* int ^ int, int & int, int << 1 (the bits that fall off are lost, as the
\* compilers the program is built with define it), int >> 1 of a positive int
IntXor(x, y) == Wrap(Xor(Unsigned(x), Unsigned(y)))
IntAnd(x, y) == Wrap(BitAnd(Unsigned(x), Unsigned(y)))
Shl1(x) == Wrap(2 * x)
Shr1(x) == x \div 2

\* while (y != 0) { temp = x ^ y; y = (x & y) << 1; x = temp; } return x;
RECURSIVE AddLoop(_, _)
AddLoop(x, y) == IF y = 0 THEN x ELSE AddLoop(IntXor(x, y), Shl1(IntAnd(x, y)))

\* x = a ^ b; y = (a & b) << 1; and the loop
ObfuscateAdd(a, b) == AddLoop(IntXor(a, b), Shl1(IntAnd(a, b)))

\* while (multiplicand > 0) { if (multiplicand & 1) result = ObfuscateAdd(result,
\* multiplier); multiplier <<= 1; multiplicand >>= 1; } return result;
RECURSIVE MultiplyLoop(_, _, _)
MultiplyLoop(result_, multiplier, multiplicand) ==
    IF multiplicand > 0
    THEN MultiplyLoop(IF IntAnd(multiplicand, 1) # 0
                      THEN ObfuscateAdd(result_, multiplier) ELSE result_,
                      Shl1(multiplier), Shr1(multiplicand))
    ELSE result_

\* result = 0; multiplier = a; multiplicand = b; and the loop
ObfuscateMultiply(a, b) == MultiplyLoop(0, a, b)

InitArith ==
    /\ opFn = "none"
    /\ opResult = 0

\* hardening::ObfuscateAdd(opA, opB) is called
CallObfuscateAdd ==
    /\ opFn = "none"
    /\ opFn' = "ObfuscateAdd"
    /\ opResult' = ObfuscateAdd(opA, opB)
    /\ UNCHANGED <<opA, opB, notArith>>

\* hardening::ObfuscateMultiply(opA, opB) is called
CallObfuscateMultiply ==
    /\ opFn = "none"
    /\ opFn' = "ObfuscateMultiply"
    /\ opResult' = ObfuscateMultiply(opA, opB)
    /\ UNCHANGED <<opA, opB, notArith>>

\* one caller thread (main); the second never runs. The log file opens: no
\* function called here looks at what LogSecurityEvent returns
Init ==
    /\ InitWith([c \in Callers |-> IF c = 0 THEN "idle" ELSE "off"])
    /\ logFileOpens = TRUE
    /\ InitKey
    /\ InitBuf
    /\ users = EmptyDB /\ InitSession
    /\ InitArith /\ opA = 0 /\ opB = 0
    /\ InitCrypto /\ plaintext = <<>> /\ key32 = NullKey /\ aad = <<>>

\* ------------------------------------------------------- control transfer
\* thread t of the live process is at l
At(t, l) == proc = "running" /\ pc[t] = l
Goto(t, l) == pc' = [pc EXCEPT ![t] = l]
\* return from a function to the address on top of the stack
PopTo(t) ==
    /\ pc' = [pc EXCEPT ![t] = Head(stack[t])]
    /\ stack' = [stack EXCEPT ![t] = Tail(@)]
\* call LogSecurityEvent(e), continuing at k
CallLog(t, e, k) ==
    /\ pc' = [pc EXCEPT ![t] = "log_lock"]
    /\ evt' = [evt EXCEPT ![t] = e]
    /\ stack' = [stack EXCEPT ![t] = <<k>> \o @]
\* call HandleCriticalEvent(type, _, tm), continuing at k: it builds a
\* severity-3 event and logs it first
CallHCE(t, type, tm, k) ==
    /\ pc' = [pc EXCEPT ![t] = "log_lock"]
    /\ evt' = [evt EXCEPT ![t] = Event(type, 3)]
    /\ term' = [term EXCEPT ![t] = tm]
    /\ stack' = [stack EXCEPT ![t] = <<"hce_after", k>> \o @]

\* ------------------------------------------------------ LogSecurityEvent
\* std::lock_guard<std::mutex> lock(g_logMutex): blocks while another thread
\* holds the mutex
LogLock(t) ==
    /\ At(t, "log_lock")
    /\ g_logMutex = NoThread
    /\ g_logMutex' = t
    /\ Goto(t, "log_push")
    /\ UNCHANGED <<flags, cfgs, g_eventLog, proc, stack, evt, term, captured, frames,
                   counters>>
    /\ UNCHANGED <<appended, others>>

\* another thread is inside "g_config = config", which reassigns the
\* std::string logFilePath without holding any lock
AssigningConfig(t) == \E c \in Callers \ {t} : pc[c] = "configure"

\* what a call of LogSecurityEvent made by the caller itself returns: true when
\* the log file opened, false when it did not; the controller's own calls drop it
LogResult(t, opened) ==
    IF t \in Callers /\ stack[t] = <<"ret">>
    THEN [ret EXCEPT ![t] = IF opened THEN "true" ELSE "false"]
    ELSE ret

\* LogSecurityEvent that gives up when the log file does not open: the event is
\* taken back and the process ends
LogPush_FileRequired(t) ==
    /\ At(t, "log_push")
    /\ g_logMutex = t
    /\ IF logFileOpens
       THEN /\ g_eventLog' = Append(g_eventLog, evt[t])
            /\ appended' = Append(appended, evt[t])
            /\ g_logMutex' = NoThread
            /\ evt' = [evt EXCEPT ![t] = NoEvent]
            /\ PopTo(t)
            /\ ret' = LogResult(t, TRUE)
            /\ UNCHANGED proc
       ELSE /\ Goto(t, "fault")
            /\ proc' = "aborted"
            /\ UNCHANGED <<g_eventLog, appended, g_logMutex, evt, stack, ret>>
    /\ UNCHANGED <<flags, cfgs, term, captured, call, counters, others>>

\* push_back, the append to the file at g_config.logFilePath, and the
\* lock_guard's release on return. Reading logFilePath while another thread
\* assigns it is a data race: the open may use the old path, the new one or
\* a freed buffer (none of which changes the controller's state), or fault;
\* whether the open succeeded is told by the return value and by nothing else
LogPush(t) ==
    /\ At(t, "log_push")
    /\ g_logMutex = t
    /\ \/ /\ g_eventLog' = Append(g_eventLog, evt[t])
          /\ appended' = Append(appended, evt[t])
          /\ g_logMutex' = NoThread
          /\ evt' = [evt EXCEPT ![t] = NoEvent]
          /\ PopTo(t)
          /\ ret' = LogResult(t, logFileOpens)
          /\ UNCHANGED proc
       \/ /\ AssigningConfig(t)
          /\ g_eventLog' = Append(g_eventLog, evt[t])
          /\ appended' = Append(appended, evt[t])
          /\ Goto(t, "fault")
          /\ proc' = "aborted"
          /\ UNCHANGED <<g_logMutex, evt, stack, ret>>
    /\ UNCHANGED <<flags, cfgs, term, captured, call, counters, others>>

\* ---------------------------------------------------- FailClosedShutdown
\* thread t enters FailClosedShutdown: it logs FAIL_CLOSED_SHUTDOWN, then calls
\* ShutdownRASP(), then std::exit; the function never returns, so the frames
\* below it are dropped
EnterFailClosedShutdown(t) ==
    /\ pc' = [pc EXCEPT ![t] = "log_lock"]
    /\ evt' = [evt EXCEPT ![t] = Event("FAIL_CLOSED_SHUTDOWN", 3)]
    /\ stack' = [stack EXCEPT ![t] = <<"sd_test", "fcs_exit">>]

\* a caller's FailClosedShutdown(reason)
FailClosedShutdown(t) ==
    /\ At(t, "fcs")
    /\ EnterFailClosedShutdown(t)
    /\ UNCHANGED <<flags, cfgs, logs, proc, term, captured, frames, counters>>
    /\ UNCHANGED <<appended, others>>

\* std::exit(EXIT_FAILURE): the process ends, every thread with it
FailClosedExit(t) ==
    /\ At(t, "fcs_exit")
    /\ proc' = "exited"
    /\ Goto(t, "exited")
    /\ UNCHANGED <<flags, cfgs, logs, stack, evt, term, captured, frames, counters>>
    /\ UNCHANGED <<appended, others>>

\* --------------------------------------------------- HandleCriticalEvent
\* after the event is logged: if (terminateApp) FailClosedShutdown(description)
HandleCriticalEvent(t) ==
    /\ At(t, "hce_after")
    /\ IF term[t]
       THEN EnterFailClosedShutdown(t)
       ELSE PopTo(t) /\ UNCHANGED evt
    /\ term' = [term EXCEPT ![t] = FALSE]
    /\ UNCHANGED <<flags, cfgs, logs, proc, captured, frames, counters>>
    /\ UNCHANGED <<appended, others>>

\* ----------------------------------------------------------- ShutdownRASP
\* if (!g_raspActive.load()) return; otherwise StopDebuggerMonitoring()
ShutdownRASP(t) ==
    /\ At(t, "sd_test")
    /\ IF ~g_raspActive
       THEN PopTo(t)
       ELSE /\ Goto(t, "stop_test")
            /\ stack' = [stack EXCEPT ![t] = <<"sd_clear">> \o @]
    /\ UNCHANGED <<flags, cfgs, logs, proc, evt, term, captured, frames, counters>>
    /\ UNCHANGED <<appended, others>>

\* g_raspActive.store(false) and return
ShutdownClear(t) ==
    /\ At(t, "sd_clear")
    /\ g_raspActive' = FALSE
    /\ PopTo(t)
    /\ UNCHANGED <<g_debuggerMonitorRunning, g_debuggerMonitorThread, cfgs, logs, proc,
                   evt, term, captured, frames, counters>>
    /\ UNCHANGED <<appended, others>>

\* ------------------------------------------------ StopDebuggerMonitoring
\* if (g_debuggerMonitorRunning.load())
StopTest(t) ==
    /\ At(t, "stop_test")
    /\ IF g_debuggerMonitorRunning
       THEN Goto(t, "stop_store") /\ UNCHANGED stack
       ELSE PopTo(t)
    /\ UNCHANGED <<flags, cfgs, logs, proc, evt, term, captured, frames, counters>>
    /\ UNCHANGED <<appended, others>>

\* g_debuggerMonitorRunning.store(false)
StopStore(t) ==
    /\ At(t, "stop_store")
    /\ g_debuggerMonitorRunning' = FALSE
    /\ Goto(t, "stop_join")
    /\ UNCHANGED <<g_raspActive, g_debuggerMonitorThread, cfgs, logs, proc, stack, evt,
                   term, captured, frames, counters>>
    /\ UNCHANGED <<appended, others>>

\* if (joinable()) join(): join waits until the thread's function has
\* returned and leaves the handle empty; a thread that joins itself gets
\* std::system_error(resource_deadlock_would_occur), which nothing on the
\* monitoring thread catches, so std::terminate ends the process
StopJoin(t) ==
    /\ At(t, "stop_join")
    /\ IF g_debuggerMonitorThread = NoThread
       THEN PopTo(t) /\ UNCHANGED <<g_debuggerMonitorThread, proc, captured>>
       ELSE IF g_debuggerMonitorThread = t
       THEN /\ Goto(t, "terminate")
            /\ proc' = "aborted"
            /\ UNCHANGED <<g_debuggerMonitorThread, stack, captured>>
       ELSE /\ pc[g_debuggerMonitorThread] = "done"
            /\ pc' = [pc EXCEPT ![t] = Head(stack[t]),
                                ![g_debuggerMonitorThread] = "none"]
            /\ stack' = [stack EXCEPT ![t] = Tail(@)]
            /\ g_debuggerMonitorThread' = NoThread
            /\ cb' = [cb EXCEPT ![g_debuggerMonitorThread] = "null"]
            /\ interval' = [interval EXCEPT ![g_debuggerMonitorThread] = 0]
            /\ UNCHANGED proc
    /\ UNCHANGED <<g_raspActive, g_debuggerMonitorRunning, cfgs, logs, evt, term,
                   frames, counters>>
    /\ UNCHANGED <<appended, others>>

\* ----------------------------------------------- StartDebuggerMonitoring
\* if (g_debuggerMonitorRunning.load()) { warn; return; }
StartTest(c) ==
    /\ At(c, "start_test")
    /\ IF g_debuggerMonitorRunning
       THEN PopTo(c)
       ELSE Goto(c, "start_store") /\ UNCHANGED stack
    /\ UNCHANGED <<flags, cfgs, logs, proc, evt, term, captured, frames, counters>>
    /\ UNCHANGED <<appended, others>>

\* g_debuggerMonitorRunning.store(true), then std::thread(...) starts the
\* loop with its captured callback and interval
StartStore(c) ==
    /\ At(c, "start_store")
    /\ \E m \in Mon :
        /\ pc[m] = "none"
        /\ \A k \in Mon : pc[k] = "none" => m <= k
        /\ g_debuggerMonitorRunning' = TRUE
        /\ pc' = [pc EXCEPT ![c] = "start_assign", ![m] = "m_loop"]
        /\ cb' = [cb EXCEPT ![m] = call[c].cb]
        /\ interval' = [interval EXCEPT ![m] = call[c].interval]
        /\ call' = [call EXCEPT ![c].spawned = m]
    /\ UNCHANGED <<g_raspActive, g_debuggerMonitorThread, cfgs, logs, proc, stack, evt,
                   term, ret, counters>>
    /\ UNCHANGED <<appended, others>>

\* g_debuggerMonitorThread = std::thread(...): move-assignment onto a handle
\* that still owns a thread calls std::terminate
StartAssign(c) ==
    /\ At(c, "start_assign")
    /\ IF g_debuggerMonitorThread # NoThread
       THEN /\ Goto(c, "terminate")
            /\ proc' = "aborted"
            /\ UNCHANGED <<g_debuggerMonitorThread, stack, call>>
       ELSE /\ g_debuggerMonitorThread' = call[c].spawned
            /\ call' = [call EXCEPT ![c].spawned = NoThread]
            /\ PopTo(c)
            /\ UNCHANGED proc
    /\ UNCHANGED <<g_raspActive, g_debuggerMonitorRunning, cfgs, logs, evt, term,
                   captured, ret, counters>>
    /\ UNCHANGED <<appended, others>>

\* ------------------------------------------------------ the monitor loop
\* while (g_debuggerMonitorRunning.load()) { if (DetectDebugger()) {log ...
MonitorLoop(m) ==
    /\ At(m, "m_loop")
    /\ IF ~g_debuggerMonitorRunning
       THEN /\ Goto(m, "done")
            /\ UNCHANGED <<stack, evt, nDetect>>
       ELSE \E detected \in BOOLEAN :
            IF detected
            THEN /\ nDetect < MaxDetect
                 /\ nDetect' = nDetect + 1
                 /\ CallLog(m, Event("DEBUGGER_DETECTED", 3), "m_detected")
            ELSE /\ Goto(m, "m_sleep")
                 /\ UNCHANGED <<stack, evt, nDetect>>
    /\ slept' = [slept EXCEPT ![m] = FALSE]
    /\ UNCHANGED <<flags, cfgs, logs, proc, term, captured, frames, nOps>>
    /\ UNCHANGED <<appended, snap, logFileOpens, rest>>

\* if (callback) callback(); the callbacks the program and its tests pass (an
\* alert on the console, a flag local to the test) touch none of the
\* controller's state. Then
\* if (g_config.autoTerminateOnThreat) HandleCriticalEvent(..., true)
MonitorDetected(m) ==
    /\ At(m, "m_detected")
    /\ IF g_config.autoTerminateOnThreat
       THEN CallHCE(m, "DEBUGGER_DETECTED", TRUE, "m_sleep")
       ELSE Goto(m, "m_sleep") /\ UNCHANGED <<stack, evt, term>>
    /\ UNCHANGED <<flags, cfgs, logs, proc, captured, frames, counters>>
    /\ UNCHANGED <<appended, others>>

\* std::this_thread::sleep_for(intervalMs), then back to the loop test
MonitorSleep(m) ==
    /\ At(m, "m_sleep")
    /\ Goto(m, "m_loop")
    /\ slept' = [slept EXCEPT ![m] = TRUE]
    /\ UNCHANGED <<flags, cfgs, logs, proc, stack, evt, term, captured, frames,
                   counters>>
    /\ UNCHANGED <<appended, snap, logFileOpens, rest>>

\* ------------------------------------------- VerifyTextSectionIntegrity
\* thread t verifies against e and continues at kPass when the function
\* returns true, at kFail when it returns false. An empty e returns true with
\* no comparison and no event; otherwise the digest is computed and one
\* event says what the comparison found
\* (digests: what CalculateTextSectionChecksum may return in this call)
\* the verification without its shortcut for an empty e
VerifyAgainst_NoShortcut(t, e, digests, kPass, kFail) ==
    \E currentChecksum \in digests :
         IF currentChecksum = ""
         THEN CallLog(t, Event("CHECKSUM_CALCULATION_FAILED", 3), kFail)
         ELSE IF currentChecksum = e
         THEN CallLog(t, Event("INTEGRITY_CHECK_PASSED", 1), kPass)
         ELSE CallLog(t, Event("CHECKSUM_MISMATCH", 3), kFail)

VerifyAgainst(t, e, digests, kPass, kFail) ==
    IF e = ""
    THEN Goto(t, kPass) /\ UNCHANGED <<stack, evt>>
    ELSE \E currentChecksum \in digests :
         IF currentChecksum = ""
         THEN CallLog(t, Event("CHECKSUM_CALCULATION_FAILED", 3), kFail)
         ELSE IF currentChecksum = e
         THEN CallLog(t, Event("INTEGRITY_CHECK_PASSED", 1), kPass)
         ELSE CallLog(t, Event("CHECKSUM_MISMATCH", 3), kFail)

VerifyTextSectionIntegrity(t, e, kPass, kFail) ==
    VerifyAgainst(t, e, CalculateTextSectionChecksum, kPass, kFail)

\* a caller's own call of VerifyTextSectionIntegrity(call[c].checksum), made
\* while CalculateTextSectionChecksum returns call[c].digest
VerifyCall(c) ==
    /\ At(c, "verify")
    /\ VerifyAgainst(c, call[c].checksum, {call[c].digest}, "verify_true", "verify_false")
    /\ UNCHANGED <<flags, cfgs, logs, proc, term, captured, frames, counters>>
    /\ UNCHANGED <<appended, others>>

\* return true; (the empty e, and isValid after the event) / return false;
VerifyReturn(c) ==
    /\ At(c, "verify_true") \/ At(c, "verify_false")
    /\ ret' = [ret EXCEPT ![c] = IF pc[c] = "verify_true" THEN "true" ELSE "false"]
    /\ PopTo(c)
    /\ UNCHANGED <<flags, cfgs, logs, proc, evt, term, captured, call, counters>>
    /\ UNCHANGED <<appended, others>>

\* ---------------------------------------------------------- InitializeRASP
\* InitializeRASP without its test of g_raspActive
InitializeRASP_Unguarded(c) ==
    /\ At(c, "init")
    /\ Goto(c, "init_set")
    /\ UNCHANGED <<flags, cfgs, logs, proc, stack, evt, term, captured, frames, counters>>
    /\ UNCHANGED <<appended, others>>

\* if (g_raspActive.load()) return false;
InitializeRASP(c) ==
    /\ At(c, "init")
    /\ IF g_raspActive
       THEN /\ ret' = [ret EXCEPT ![c] = "false"]
            /\ PopTo(c)
       ELSE /\ Goto(c, "init_set")
            /\ UNCHANGED <<stack, ret>>
    /\ UNCHANGED <<flags, cfgs, logs, proc, evt, term, captured, call, counters>>
    /\ UNCHANGED <<appended, others>>

\* g_expectedChecksum = expectedChecksum;
\* g_config.autoTerminateOnThreat = autoTerminateOnThreat;
InitSet(c) ==
    /\ At(c, "init_set")
    /\ g_expectedChecksum' = call[c].checksum
    /\ g_config' = [g_config EXCEPT !.autoTerminateOnThreat = call[c].autoTerm]
    /\ Goto(c, "init_integrity")
    /\ UNCHANGED <<flags, logs, proc, stack, evt, term, captured, frames, counters>>
    /\ UNCHANGED <<appended, others>>

\* if (g_config.enableChecksumVerification) BootTimeIntegrityCheck(...), which
\* verifies (it tests the same switch again) and goes to boot_fail on false
InitIntegrity(c) ==
    /\ At(c, "init_integrity")
    /\ IF g_config.enableChecksumVerification
       THEN VerifyTextSectionIntegrity(c, call[c].checksum, "init_mon", "boot_fail")
       ELSE Goto(c, "init_mon") /\ UNCHANGED <<stack, evt>>
    /\ UNCHANGED <<flags, cfgs, logs, proc, term, captured, frames, counters>>
    /\ UNCHANGED <<appended, others>>

\* BootTimeIntegrityCheck on a failed verification:
\* HandleCriticalEvent("BOOT_INTEGRITY_FAILED", ..., true); were that call to
\* return, the check would return false and InitializeRASP would return false
\* (the return value is set here and the call returns to InitializeRASP's caller)
BootTimeIntegrityCheck(c) ==
    /\ At(c, "boot_fail")
    /\ Goto(c, "log_lock")
    /\ evt' = [evt EXCEPT ![c] = Event("BOOT_INTEGRITY_FAILED", 3)]
    /\ term' = [term EXCEPT ![c] = TRUE]
    /\ stack' = [stack EXCEPT ![c] = <<"hce_after">> \o @]
    /\ ret' = [ret EXCEPT ![c] = "false"]
    /\ UNCHANGED <<flags, cfgs, logs, proc, captured, call, counters>>
    /\ UNCHANGED <<appended, others>>

\* if (g_config.enableDebuggerDetection)
\*     StartDebuggerMonitoring(alert, g_config.monitoringIntervalMs);
InitMonitoring(c) ==
    /\ At(c, "init_mon")
    /\ IF g_config.enableDebuggerDetection
       THEN /\ call' = [call EXCEPT ![c].cb = "alert",
                                    ![c].interval = g_config.monitoringIntervalMs]
            /\ Goto(c, "start_test")
            /\ stack' = [stack EXCEPT ![c] = <<"init_hooks">> \o @]
       ELSE /\ Goto(c, "init_hooks")
            /\ UNCHANGED <<stack, call>>
    /\ UNCHANGED <<flags, cfgs, logs, proc, evt, term, captured, ret, counters>>
    /\ UNCHANGED <<appended, others>>

\* the hook scan of a caller: DetectIATHooks() logs one IAT_HOOK_DETECTED
\* event when its count is positive, DetectPLTHooks() returns 0; continue at
\* kFound when the caller's test (a count > 0, or the sum > 0) is true, at
\* kClean otherwise
ScanHooks(t, kFound, kClean) ==
    \E iatHooks \in DetectIATHooks :
        IF iatHooks > 0
        THEN CallLog(t, Event("IAT_HOOK_DETECTED", 3),
                     IF iatHooks + DetectPLTHooks > 0 THEN kFound ELSE kClean)
        ELSE /\ Goto(t, IF iatHooks + DetectPLTHooks > 0 THEN kFound ELSE kClean)
             /\ UNCHANGED <<stack, evt>>

\* a caller's own call of DetectIATHooks() or DetectPLTHooks(): the count is
\* what the function returns, and a positive count is logged as one event
\* before the return
DetectHooksCall(c) ==
    /\ At(c, "hooks")
    /\ \E hookCount \in IF call[c].op = "DetectIATHooks"
                         THEN DetectIATHooks ELSE {DetectPLTHooks} :
          /\ call' = [call EXCEPT ![c].hookCount = hookCount]
          /\ IF hookCount > 0
             THEN CallLog(c, Event(IF call[c].op = "DetectIATHooks"
                                   THEN "IAT_HOOK_DETECTED" ELSE "PLT_HOOK_DETECTED", 3),
                          "hooks_ret")
             ELSE Goto(c, "hooks_ret") /\ UNCHANGED <<stack, evt>>
    /\ UNCHANGED <<flags, cfgs, logs, proc, term, captured, ret, counters>>
    /\ UNCHANGED <<appended, others>>

\* return hookCount;
DetectHooksReturn(c) ==
    /\ At(c, "hooks_ret")
    /\ PopTo(c)
    /\ UNCHANGED <<flags, cfgs, logs, proc, evt, term, captured, frames, counters>>
    /\ UNCHANGED <<appended, others>>

\* if (g_config.enableHookDetection) { scan; if (iatHooks > 0 || pltHooks > 0) ...
InitHooks(c) ==
    /\ At(c, "init_hooks")
    /\ IF g_config.enableHookDetection
       THEN ScanHooks(c, "init_hooks_found", "init_activate")
       ELSE Goto(c, "init_activate") /\ UNCHANGED <<stack, evt>>
    /\ UNCHANGED <<flags, cfgs, logs, proc, term, captured, frames, counters>>
    /\ UNCHANGED <<appended, others>>

\* HandleCriticalEvent("HOOK_DETECTED", ..., autoTerminateOnThreat)
InitHooksFound(c) ==
    /\ At(c, "init_hooks_found")
    /\ CallHCE(c, "HOOK_DETECTED", call[c].autoTerm, "init_activate")
    /\ UNCHANGED <<flags, cfgs, logs, proc, captured, frames, counters>>
    /\ UNCHANGED <<appended, others>>

\* InitializeRASP returning true without storing the flag
InitActivate_NoStore(c) ==
    /\ At(c, "init_activate")
    /\ ret' = [ret EXCEPT ![c] = "true"]
    /\ PopTo(c)
    /\ UNCHANGED <<flags, cfgs, logs, proc, evt, term, captured, call, counters>>
    /\ UNCHANGED <<appended, others>>

\* g_raspActive.store(true); return true;
InitActivate(c) ==
    /\ At(c, "init_activate")
    /\ g_raspActive' = TRUE
    /\ ret' = [ret EXCEPT ![c] = "true"]
    /\ PopTo(c)
    /\ UNCHANGED <<g_debuggerMonitorRunning, g_debuggerMonitorThread, cfgs, logs, proc,
                   evt, term, captured, call, counters>>
    /\ UNCHANGED <<appended, others>>

\* ----------------------------------------------------- PerformSecurityScan
\* if (!g_raspActive.load()) return false; bool allPassed = true;
PerformSecurityScan(c) ==
    /\ At(c, "scan")
    /\ IF ~g_raspActive
       THEN /\ ret' = [ret EXCEPT ![c] = "false"]
            /\ PopTo(c)
            /\ UNCHANGED call
       ELSE /\ call' = [call EXCEPT ![c].allPassed = TRUE]
            /\ Goto(c, "scan_dbg")
            /\ UNCHANGED <<stack, ret>>
    /\ UNCHANGED <<flags, cfgs, logs, proc, evt, term, captured, counters>>
    /\ UNCHANGED <<appended, others>>

\* if (g_config.enableDebuggerDetection && DetectDebugger())
\*     HandleCriticalEvent("DEBUGGER_DETECTED", ..., g_config.autoTerminateOnThreat)
ScanDebugger(c) ==
    /\ At(c, "scan_dbg")
    /\ \E detected \in BOOLEAN :
        IF g_config.enableDebuggerDetection /\ detected
        THEN /\ CallHCE(c, "DEBUGGER_DETECTED", g_config.autoTerminateOnThreat,
                        "scan_dbg_failed")
             /\ call' = [call EXCEPT ![c].failed = TRUE]
        ELSE /\ Goto(c, "scan_int")
             /\ UNCHANGED <<stack, evt, term, call>>
    /\ UNCHANGED <<flags, cfgs, logs, proc, captured, ret, counters>>
    /\ UNCHANGED <<appended, others>>

\* if (g_config.enableChecksumVerification &&
\*     !VerifyTextSectionIntegrity(g_expectedChecksum))
ScanIntegrity(c) ==
    /\ At(c, "scan_int")
    /\ IF g_config.enableChecksumVerification
       THEN VerifyTextSectionIntegrity(c, g_expectedChecksum, "scan_hooks", "scan_int_hce")
       ELSE Goto(c, "scan_hooks") /\ UNCHANGED <<stack, evt>>
    /\ UNCHANGED <<flags, cfgs, logs, proc, term, captured, frames, counters>>
    /\ UNCHANGED <<appended, others>>

\* HandleCriticalEvent("INTEGRITY_VIOLATION", ..., g_config.autoTerminateOnThreat)
ScanIntegrityFailed(c) ==
    /\ At(c, "scan_int_hce")
    /\ CallHCE(c, "INTEGRITY_VIOLATION", g_config.autoTerminateOnThreat,
               "scan_int_failed")
    /\ call' = [call EXCEPT ![c].failed = TRUE]
    /\ UNCHANGED <<flags, cfgs, logs, proc, captured, ret, counters>>
    /\ UNCHANGED <<appended, others>>

\* if (g_config.enableHookDetection) { hooks = IAT + PLT; if (hooks > 0) ...
ScanHookCheck(c) ==
    /\ At(c, "scan_hooks")
    /\ IF g_config.enableHookDetection
       THEN ScanHooks(c, "scan_hook_hce", "scan_ret")
       ELSE Goto(c, "scan_ret") /\ UNCHANGED <<stack, evt>>
    /\ UNCHANGED <<flags, cfgs, logs, proc, term, captured, frames, counters>>
    /\ UNCHANGED <<appended, others>>

\* HandleCriticalEvent("HOOK_DETECTED", ..., g_config.autoTerminateOnThreat)
ScanHooksFound(c) ==
    /\ At(c, "scan_hook_hce")
    /\ CallHCE(c, "HOOK_DETECTED", g_config.autoTerminateOnThreat, "scan_hook_failed")
    /\ call' = [call EXCEPT ![c].failed = TRUE]
    /\ UNCHANGED <<flags, cfgs, logs, proc, captured, ret, counters>>
    /\ UNCHANGED <<appended, others>>

\* allPassed = false; after a HandleCriticalEvent that returned
ScanNextAfter(l) ==
    CASE l = "scan_dbg_failed" -> "scan_int"
      [] l = "scan_int_failed" -> "scan_hooks"
      [] l = "scan_hook_failed" -> "scan_ret"

ScanCheckFailed(c) ==
    /\ proc = "running"
    /\ pc[c] \in {"scan_dbg_failed", "scan_int_failed", "scan_hook_failed"}
    /\ call' = [call EXCEPT ![c].allPassed = FALSE]
    /\ Goto(c, ScanNextAfter(pc[c]))
    /\ UNCHANGED <<flags, cfgs, logs, proc, stack, evt, term, captured, ret, counters>>
    /\ UNCHANGED <<appended, others>>

\* return allPassed;
ScanReturn(c) ==
    /\ At(c, "scan_ret")
    /\ ret' = [ret EXCEPT ![c] = IF call[c].allPassed THEN "true" ELSE "false"]
    /\ PopTo(c)
    /\ UNCHANGED <<flags, cfgs, logs, proc, evt, term, captured, call, counters>>
    /\ UNCHANGED <<appended, others>>

\* ----------------------------------------------------------- ConfigureRASP
\* g_config = config;
ConfigureRASP(c) ==
    /\ At(c, "configure")
    /\ g_config' = call[c].cfg
    /\ PopTo(c)
    /\ UNCHANGED <<flags, g_expectedChecksum, logs, proc, evt, term, captured, frames,
                   counters>>
    /\ UNCHANGED <<appended, others>>

\* ------------------------------------------------------- the caller threads
\* the entry point of each public function a caller may call
Entry(op) ==
    CASE op = "InitializeRASP" -> "init"
      [] op = "ShutdownRASP" -> "sd_test"
      [] op = "PerformSecurityScan" -> "scan"
      [] op = "ConfigureRASP" -> "configure"
      [] op = "StartDebuggerMonitoring" -> "start_test"
      [] op = "StopDebuggerMonitoring" -> "stop_test"
      [] op = "FailClosedShutdown" -> "fcs"
      [] op = "LogSecurityEvent" -> "log_lock"
      [] op = "GetSecurityEventLog" -> "get_lock"
      [] op = "ClearSecurityLog" -> "clear_lock"
      [] op = "VerifyTextSectionIntegrity" -> "verify"
      [] op = "DetectIATHooks" -> "hooks"
      [] op = "DetectPLTHooks" -> "hooks"

\* an idle caller calls a public function with its arguments
Invoke(c, frame) ==
    /\ At(c, "idle")
    /\ nOps < MaxOps
    /\ nOps' = nOps + 1
    /\ call' = [call EXCEPT ![c] = frame]
    /\ Goto(c, Entry(frame.op))
    /\ stack' = [stack EXCEPT ![c] = <<"ret">>]
    /\ UNCHANGED <<flags, cfgs, logs, proc, evt, term, captured, ret, nDetect>>
    /\ UNCHANGED <<appended, others>>

CallInitializeRASP(c) ==
    \E e \in Checksums, a \in BOOLEAN :
        Invoke(c, [NoCall EXCEPT !.op = "InitializeRASP", !.checksum = e, !.autoTerm = a])

CallShutdownRASP(c) == Invoke(c, [NoCall EXCEPT !.op = "ShutdownRASP"])

CallPerformSecurityScan(c) == Invoke(c, [NoCall EXCEPT !.op = "PerformSecurityScan"])

CallConfigureRASP(c) ==
    \E config \in Configs :
        Invoke(c, [NoCall EXCEPT !.op = "ConfigureRASP", !.cfg = config])

CallStartDebuggerMonitoring(c) ==
    \E a \in StartArgs :
        Invoke(c, [NoCall EXCEPT !.op = "StartDebuggerMonitoring", !.cb = a.cb,
                                 !.interval = a.interval])

CallStopDebuggerMonitoring(c) == Invoke(c, [NoCall EXCEPT !.op = "StopDebuggerMonitoring"])

CallFailClosedShutdown(c) == Invoke(c, [NoCall EXCEPT !.op = "FailClosedShutdown"])

\* the function returned to the caller, which drops the frame
Return(c) ==
    /\ At(c, "ret")
    /\ Goto(c, "idle")
    /\ call' = [call EXCEPT ![c] = NoCall]
    /\ ret' = [ret EXCEPT ![c] = "none"]
    /\ UNCHANGED <<flags, cfgs, logs, proc, stack, evt, term, captured, counters>>
    /\ UNCHANGED <<appended, others>>

\* -------------------------------------------------- the security event log
\* the event a caller logs by itself
TestEvents == {Event("TEST_EVENT", 1)}

\* an idle caller calls one of the log's functions
InvokeLog(c, frame, e) ==
    /\ At(c, "idle")
    /\ nOps < MaxLogOps
    /\ nOps' = nOps + 1
    /\ call' = [call EXCEPT ![c] = frame]
    /\ Goto(c, Entry(frame.op))
    /\ evt' = [evt EXCEPT ![c] = e]
    /\ stack' = [stack EXCEPT ![c] = <<"ret">>]
    /\ UNCHANGED <<flags, cfgs, logs, proc, term, captured, ret, nDetect>>
    /\ UNCHANGED <<appended, others>>

CallLogSecurityEvent(c) ==
    \E e \in TestEvents : InvokeLog(c, [NoCall EXCEPT !.op = "LogSecurityEvent"], e)

CallGetSecurityEventLog(c) ==
    InvokeLog(c, [NoCall EXCEPT !.op = "GetSecurityEventLog"], NoEvent)

CallClearSecurityLog(c) ==
    InvokeLog(c, [NoCall EXCEPT !.op = "ClearSecurityLog"], NoEvent)

\* VerifyTextSectionIntegrity(e) called while the digest of the image is d,
\* or cannot be computed (d = "")
CallVerifyTextSectionIntegrity(c) ==
    \E e \in Checksums, d \in CalculateTextSectionChecksum :
        InvokeLog(c, [NoCall EXCEPT !.op = "VerifyTextSectionIntegrity",
                                    !.checksum = e, !.digest = d], NoEvent)

CallDetectIATHooks(c) == InvokeLog(c, [NoCall EXCEPT !.op = "DetectIATHooks"], NoEvent)

CallDetectPLTHooks(c) == InvokeLog(c, [NoCall EXCEPT !.op = "DetectPLTHooks"], NoEvent)

\* the monitoring loop the log's callers run beside
CallStartMonitor(c) ==
    InvokeLog(c, [NoCall EXCEPT !.op = "StartDebuggerMonitoring", !.interval = 1], NoEvent)

\* the lock_guard of GetSecurityEventLog and of ClearSecurityLog
LogApiLock(c) ==
    /\ At(c, "get_lock") \/ At(c, "clear_lock")
    /\ g_logMutex = NoThread
    /\ g_logMutex' = c
    /\ Goto(c, IF pc[c] = "get_lock" THEN "get_copy" ELSE "clear_do")
    /\ UNCHANGED <<flags, cfgs, g_eventLog, proc, stack, evt, term, captured, frames,
                   counters, appended, others>>

\* the log file becomes unwritable (its directory is removed, the disk fills
\* up) or writable again
LogFileChanges ==
    /\ proc = "running"
    /\ logFileOpens' = ~logFileOpens
    /\ UNCHANGED <<flags, cfgs, logs, proc, pc, stack, evt, term, captured, frames,
                   counters, appended, slept, snap, rest>>

\* GetSecurityEventLog that copies the vector without the first event
GetSecurityEventLog_Partial(c) ==
    /\ At(c, "get_copy")
    /\ g_logMutex = c
    /\ snap' = [snap EXCEPT ![c] = IF g_eventLog = <<>> THEN <<>> ELSE Tail(g_eventLog)]
    /\ g_logMutex' = NoThread
    /\ PopTo(c)
    /\ UNCHANGED <<flags, cfgs, g_eventLog, proc, evt, term, captured, frames, counters,
                   appended, slept, logFileOpens, rest>>

\* return g_eventLog: the copy is made while the lock is held
GetSecurityEventLog(c) ==
    /\ At(c, "get_copy")
    /\ g_logMutex = c
    /\ snap' = [snap EXCEPT ![c] = g_eventLog]
    /\ g_logMutex' = NoThread
    /\ PopTo(c)
    /\ UNCHANGED <<flags, cfgs, g_eventLog, proc, evt, term, captured, frames, counters,
                   appended, slept, logFileOpens, rest>>

\* g_eventLog.clear() and the truncation of the log file
ClearSecurityLog(c) ==
    /\ At(c, "clear_do")
    /\ g_logMutex = c
    /\ g_eventLog' = <<>>
    /\ appended' = <<>>
    /\ g_logMutex' = NoThread
    /\ PopTo(c)
    /\ UNCHANGED <<flags, cfgs, proc, evt, term, captured, frames, counters, others>>

\* ------------------------------------------- the application key's functions
InitResult(b) == [NoResult EXCEPT !.op = "AppKey_InitFromEnvOrPrompt", !.ok = b]

\* AppKey_InitFromEnvOrPrompt without its first test: every call reads a
\* passphrase and derives again
AppKey_InitFromEnvOrPrompt_Unguarded ==
    /\ kpc = "idle"
    /\ nKeyOps < MaxKeyOps
    /\ nKeyOps' = nKeyOps + 1
    /\ \E envVal \in Passphrases, typed \in Passphrases :
          LET pw == IF envVal # <<>> THEN envVal ELSE typed IN
          /\ passphrase' = pw
          /\ IF pw = <<>>
             THEN kres' = InitResult(FALSE) /\ kpc' = "ret"
             ELSE kres' = NoResult /\ kpc' = "k_resize"
    /\ UNCHANGED <<g_appKey, g_appKeyInitialized, initReturnedTrue, firstKey, notKey>>

\* the entry of AppKey_InitFromEnvOrPrompt up to the call of resize: the
\* initialized test, getenv, and the prompt when the variable gave nothing
AppKey_InitFromEnvOrPrompt ==
    /\ kpc = "idle"
    /\ nKeyOps < MaxKeyOps
    /\ nKeyOps' = nKeyOps + 1
    /\ IF g_appKeyInitialized
       THEN /\ kres' = InitResult(TRUE)
            /\ kpc' = "ret"
            /\ UNCHANGED passphrase
       ELSE \E envVal \in Passphrases, typed \in Passphrases :
               LET pw == IF envVal # <<>> THEN envVal ELSE typed IN
               /\ passphrase' = pw
               /\ IF pw = <<>>
                  THEN kres' = InitResult(FALSE) /\ kpc' = "ret"
                  ELSE kres' = NoResult /\ kpc' = "k_resize"
    /\ UNCHANGED <<g_appKey, g_appKeyInitialized, initReturnedTrue, firstKey, notKey>>

\* g_appKey.resize(32): a zero-filled region of 32 bytes, or std::bad_alloc
\* from operator new, which nothing on the way out catches
KeyResize ==
    /\ kpc = "k_resize"
    /\ \/ /\ g_appKey' = Zeros(KeySize)
          /\ kpc' = "k_derive"
          /\ UNCHANGED kres
       \/ /\ kres' = [InitResult(FALSE) EXCEPT !.err = "bad_alloc"]
          /\ kpc' = "ret"
          /\ UNCHANGED g_appKey
    /\ UNCHANGED <<g_appKeyInitialized, passphrase, nKeyOps, initReturnedTrue, firstKey,
                   notKey>>

\* the derivation with a failure path that returns false and leaves the
\* buffer as the derivation left it
KeyDerive_KeepsBuffer ==
    /\ kpc = "k_derive"
    /\ \E derived \in BOOLEAN :
          IF derived
          THEN /\ g_appKey' = DeriveKeyFromPassphrase(passphrase)
               /\ passphrase' = Zeros(Len(passphrase))
               /\ g_appKeyInitialized' = TRUE
               /\ kres' = InitResult(TRUE)
               /\ initReturnedTrue' = TRUE
               /\ firstKey' = IF initReturnedTrue THEN firstKey ELSE g_appKey'
          ELSE /\ \E n \in 0..KeySize :
                     g_appKey' = [i \in 1..KeySize |->
                                     IF i <= n THEN DeriveKeyFromPassphrase(passphrase)[i]
                                     ELSE 0]
               /\ kres' = InitResult(FALSE)
               /\ UNCHANGED <<passphrase, g_appKeyInitialized, initReturnedTrue, firstKey>>
    /\ kpc' = "ret"
    /\ UNCHANGED <<nKeyOps, notKey>>

\* DeriveKeyFromPassphrase into g_appKey.data() and what follows it: on
\* success the passphrase is zero-filled and the flag set; on failure the
\* buffer, whatever the derivation wrote into it, is cleansed and released
KeyDerive ==
    /\ kpc = "k_derive"
    /\ \E derived \in BOOLEAN :
          IF derived
          THEN /\ g_appKey' = DeriveKeyFromPassphrase(passphrase)
               /\ passphrase' = Zeros(Len(passphrase))
               /\ g_appKeyInitialized' = TRUE
               /\ kres' = InitResult(TRUE)
               /\ initReturnedTrue' = TRUE
               /\ firstKey' = IF initReturnedTrue THEN firstKey ELSE g_appKey'
          ELSE /\ g_appKey' = <<>>
               /\ kres' = InitResult(FALSE)
               /\ UNCHANGED <<passphrase, g_appKeyInitialized, initReturnedTrue, firstKey>>
    /\ kpc' = "ret"
    /\ UNCHANGED <<nKeyOps, notKey>>

\* AppKey_Get: the key, or std::runtime_error while the flag is not set
AppKey_Get ==
    /\ kpc = "idle"
    /\ nKeyOps < MaxKeyOps
    /\ nKeyOps' = nKeyOps + 1
    /\ kres' = IF g_appKeyInitialized
               THEN [NoResult EXCEPT !.op = "AppKey_Get", !.ok = TRUE, !.key = g_appKey]
               ELSE [NoResult EXCEPT !.op = "AppKey_Get", !.err = "runtime_error"]
    /\ kpc' = "ret"
    /\ UNCHANGED <<g_appKey, g_appKeyInitialized, passphrase, initReturnedTrue, firstKey,
                   notKey>>

AppKey_IsReady ==
    /\ kpc = "idle"
    /\ nKeyOps < MaxKeyOps
    /\ nKeyOps' = nKeyOps + 1
    /\ kres' = [NoResult EXCEPT !.op = "AppKey_IsReady", !.ok = g_appKeyInitialized]
    /\ kpc' = "ret"
    /\ UNCHANGED <<g_appKey, g_appKeyInitialized, passphrase, initReturnedTrue, firstKey,
                   notKey>>

\* the call is over: the caller has the result and the locals are gone
KeyReturn ==
    /\ kpc = "ret"
    /\ kpc' = "idle"
    /\ passphrase' = <<>>
    /\ UNCHANGED <<g_appKey, g_appKeyInitialized, kres, nKeyOps, initReturnedTrue,
                   firstKey, notKey>>

\* ------------------------------------------------- SecureBuffer operations
\* operator new[] hands out a region that is not in use, if there is one
CanAllocate == \E r \in 1..MaxRegions : heap[r].st # "live"
NewRegion == CHOOSE r \in 1..MaxRegions :
                 /\ heap[r].st # "live"
                 /\ \A q \in 1..MaxRegions : heap[q].st # "live" => r <= q
\* what the owner writes: a secret in every byte
Contents(n) == {[i \in 1..n |-> Secret]}
\* cleanse(): secure_bzero(data_, size_) when there is a region
Cleansed(h, b) ==
    IF b.data # 0 /\ b.size > 0 THEN [h EXCEPT ![b.data].bytes = Zeros(b.size)] ELSE h
\* delete[] p: the region goes back to the allocator with the bytes it has
Deleted(h, p) == IF p = 0 THEN h ELSE [h EXCEPT ![p].st = "freed"]
\* the operation frees a region that holds a non-zero byte as it starts
Releases(op, b) ==
    released' = IF b.data # 0 /\ heap[b.data].bytes # Zeros(b.size)
                THEN released \cup {op} ELSE released

\* SecureBuffer(size): operator new[] hands out a region or throws
Construct(o, n) ==
    /\ ~bufs[o].alive
    /\ IF n = 0
       THEN /\ bufs' = [bufs EXCEPT ![o] = NullBuf]
            /\ bres' = Outcome(o, FALSE, "")
            /\ UNCHANGED heap
       ELSE \/ /\ CanAllocate
               /\ heap' = [heap EXCEPT ![NewRegion] = [st |-> "live", bytes |-> Zeros(n)]]
               /\ bufs' = [bufs EXCEPT ![o] = [alive |-> TRUE, data |-> NewRegion, size |-> n]]
               /\ bres' = Outcome(o, FALSE, "")
            \/ /\ bres' = Outcome(o, TRUE, "std::bad_alloc")
               /\ UNCHANGED <<heap, bufs>>
    /\ UNCHANGED <<released, notBuf>>

\* SecureBuffer(SecureBuffer&& other)
MoveConstruct(o, other) ==
    /\ ~bufs[o].alive
    /\ bufs[other].alive
    /\ bufs' = [bufs EXCEPT ![o] = bufs[other], ![other] = NullBuf]
    /\ bres' = Outcome(o, FALSE, "")
    /\ UNCHANGED <<heap, released, notBuf>>

\* operator=(SecureBuffer&& other)
MoveAssign(o, other) ==
    /\ bufs[o].alive
    /\ bufs[other].alive
    /\ IF o # other
       THEN /\ heap' = Deleted(Cleansed(heap, bufs[o]), bufs[o].data)
            /\ bufs' = [bufs EXCEPT ![o] = bufs[other], ![other] = NullBuf]
            /\ Releases("operator=", bufs[o])
       ELSE UNCHANGED <<heap, bufs, released>>
    /\ bres' = Outcome(o, FALSE, "")
    /\ UNCHANGED notBuf

\* ~SecureBuffer()
Destroy(o) ==
    /\ bufs[o].alive
    /\ heap' = Deleted(Cleansed(heap, bufs[o]), bufs[o].data)
    /\ bufs' = [bufs EXCEPT ![o] = NoBuf]
    /\ Releases("~SecureBuffer", bufs[o])
    /\ bres' = Outcome(o, FALSE, "")
    /\ UNCHANGED notBuf

\* resize that frees the old region as it is
Resize_NoCleanse(o, n) ==
    /\ bufs[o].alive
    /\ LET b == bufs[o] IN
       IF n = b.size
       THEN /\ bres' = Outcome(o, FALSE, "")
            /\ UNCHANGED <<heap, bufs, released>>
       ELSE IF n = 0
       THEN /\ heap' = Deleted(heap, b.data)
            /\ bufs' = [bufs EXCEPT ![o] = NullBuf]
            /\ Releases("resize(0)", b)
            /\ bres' = Outcome(o, FALSE, "")
       ELSE \/ /\ CanAllocate
               /\ LET old == IF b.data = 0 THEN <<>> ELSE heap[b.data].bytes
                      newData == [i \in 1..n |-> IF i <= b.size THEN old[i] ELSE 0]
                  IN heap' = [Deleted(heap, b.data) EXCEPT
                                 ![NewRegion] = [st |-> "live", bytes |-> newData]]
               /\ bufs' = [bufs EXCEPT ![o] = [alive |-> TRUE, data |-> NewRegion, size |-> n]]
               /\ Releases("resize", b)
               /\ bres' = Outcome(o, FALSE, "")
            \/ /\ bres' = Outcome(o, TRUE, "std::bad_alloc")
               /\ UNCHANGED <<heap, bufs, released>>
    /\ UNCHANGED notBuf

\* resize(newSize): nothing for the same size; for 0 the region is cleansed
\* and freed; otherwise a new region gets the bytes that fit, zeros behind
\* them, and the old region is cleansed and freed. operator new[] may throw
\* before anything was changed
Resize(o, n) ==
    /\ bufs[o].alive
    /\ LET b == bufs[o] IN
       IF n = b.size
       THEN /\ bres' = Outcome(o, FALSE, "")
            /\ UNCHANGED <<heap, bufs, released>>
       ELSE IF n = 0
       THEN /\ heap' = Deleted(Cleansed(heap, b), b.data)
            /\ bufs' = [bufs EXCEPT ![o] = NullBuf]
            /\ Releases("resize(0)", b)
            /\ bres' = Outcome(o, FALSE, "")
       ELSE \/ /\ CanAllocate
               /\ LET old == IF b.data = 0 THEN <<>> ELSE heap[b.data].bytes
                      newData == [i \in 1..n |-> IF i <= b.size THEN old[i] ELSE 0]
                  IN heap' = [Deleted(Cleansed(heap, b), b.data) EXCEPT
                                 ![NewRegion] = [st |-> "live", bytes |-> newData]]
               /\ bufs' = [bufs EXCEPT ![o] = [alive |-> TRUE, data |-> NewRegion, size |-> n]]
               /\ Releases("resize", b)
               /\ bres' = Outcome(o, FALSE, "")
            \/ /\ bres' = Outcome(o, TRUE, "std::bad_alloc")
               /\ UNCHANGED <<heap, bufs, released>>
    /\ UNCHANGED notBuf

\* cleanse()
Cleanse(o) ==
    /\ bufs[o].alive
    /\ heap' = Cleansed(heap, bufs[o])
    /\ bres' = Outcome(o, FALSE, "")
    /\ UNCHANGED <<bufs, released, notBuf>>

\* the owner writes through data()
WriteData(o) ==
    /\ bufs[o].alive
    /\ bufs[o].size > 0
    /\ \E c \in Contents(bufs[o].size) :
          heap' = [heap EXCEPT ![bufs[o].data].bytes = c]
    /\ bres' = Outcome(o, FALSE, "")
    /\ UNCHANGED <<bufs, released, notBuf>>

\* ---------------------------------------------------- the cipher's callers
\* the value is sealed for its column; RAND_bytes failing makes EncryptForDB
\* throw, and nothing is stored
Seal ==
    /\ origin = "none"
    /\ \/ \E iv \in IVs :
             /\ sealed' = EncryptForDB(plaintext, key32, aad, iv)
             /\ origin' = "EncryptForDB"
       \/ /\ origin' = "runtime_error"
          /\ UNCHANGED sealed
    /\ UNCHANGED <<plaintext, key32, aad, tampered, dfn, dkey, daad, result, notCrypto>>

\* the column holds a value nobody sealed: the value itself (a row written
\* before encryption was introduced), or the prefix with something behind it
StoreRaw ==
    /\ origin = "none"
    /\ \E v \in {plaintext, Prefix \o plaintext, Prefix \o B64Encode(plaintext)} :
          sealed' = v
    /\ origin' = "raw"
    /\ UNCHANGED <<plaintext, key32, aad, tampered, dfn, dkey, daad, result, notCrypto>>

\* one byte of the ciphertext or of the tag of a sealed value is changed
Tamper ==
    /\ origin = "EncryptForDB"
    /\ dfn = "none"
    /\ ~tampered
    /\ HasPrefix(sealed)
    /\ LET decoded == B64Decode(Body(sealed)) IN
       \E i \in (IvLen + 1)..Len(decoded), d \in {1, 128} :
           sealed' = Prefix \o B64Encode([decoded EXCEPT ![i] = (@ + d) % 256])
    /\ tampered' = TRUE
    /\ UNCHANGED <<plaintext, key32, aad, origin, dfn, dkey, daad, result, notCrypto>>

\* crypto::DecryptFromDB is called on the column's string
CallDecryptFromDB ==
    /\ origin \in {"EncryptForDB", "raw"}
    /\ dfn = "none"
    /\ \E k \in Keys \cup {NullKey}, a \in AADs :
          /\ result' = DecryptFromDB(sealed, k, a)
          /\ dkey' = k
          /\ daad' = a
    /\ dfn' = "DecryptFromDB"
    /\ UNCHANGED <<plaintext, key32, aad, sealed, origin, tampered, notCrypto>>

\* the application's decryptMaybe is called on it, with the application key
CallDecryptMaybe ==
    /\ origin \in {"EncryptForDB", "raw"}
    /\ dfn = "none"
    /\ \E k \in Keys :
          /\ result' = decryptMaybe(sealed, k)
          /\ dkey' = k
    /\ daad' = <<>>
    /\ dfn' = "decryptMaybe"
    /\ UNCHANGED <<plaintext, key32, aad, sealed, origin, tampered, notCrypto>>

\* --------------------------------------------------- the session's functions
\* one more call of them is made
AuthCall(op, uname, pwd, ok, kdf) ==
    /\ nAuthOps < MaxAuthOps
    /\ nAuthOps' = nAuthOps + 1
    /\ lres' = [op |-> op, uname |-> uname, pwd |-> pwd, ok |-> ok, kdf |-> kdf]

\* SELECT COUNT(*) FROM users WHERE active=1
CountUsers == Cardinality({n \in StoredNames : users[n].present})

\* LS_Init() that returns: AppKey_InitFromEnvOrPrompt() returned true (the key
\* is derived unless it was already), the database is opened and its tables
\* created if they do not exist, and when no user is there the default admin
\* is inserted, with "admin" as password, unless gen_salt or the derivation
\* fails. (When the key or the database cannot be had, std::exit(1).)
LS_Init ==
    /\ AuthCall("LS_Init", <<>>, <<>>, TRUE, TRUE)
    /\ IF g_appKeyInitialized
       THEN UNCHANGED <<g_appKey, g_appKeyInitialized, initReturnedTrue, firstKey>>
       ELSE \E pw \in Passphrases \ {<<>>} :
               /\ g_appKey' = DeriveKeyFromPassphrase(pw)
               /\ g_appKeyInitialized' = TRUE
               /\ initReturnedTrue' = TRUE
               /\ firstKey' = IF initReturnedTrue THEN firstKey
                              ELSE DeriveKeyFromPassphrase(pw)
    /\ g_db' = TRUE
    /\ \E saltOk \in BOOLEAN, salt \in Salts, kdfOk \in BOOLEAN :
          IF CountUsers = 0 /\ saltOk /\ kdfOk
          THEN LET row == Modern(salt, PBKDF2(Admin, salt, IterCount), IterCount) IN
               /\ users' = [users EXCEPT ![CStr(Admin)] = row]
               /\ created' = [created EXCEPT ![CStr(Admin)] = Created("LS_Init", Admin, row)]
          ELSE UNCHANGED <<users, created>>
    /\ UNCHANGED <<g_isAuthed, g_currentUser, passphrase, kpc, kres, nKeyOps, notAuth>>

\* LS_AuthRegisterInteractive(): uname is the name the loop accepts (3 to 31
\* characters, no active row with it), then the two passwords, the salt and
\* the derivation; db_prepare fails while the database is not open
LS_AuthRegisterInteractive ==
    \E uname \in Usernames, pwd1 \in Passwords, pwd2 \in Passwords,
       saltOk \in BOOLEAN, salt \in Salts, kdfOk \in BOOLEAN :
        /\ g_db => /\ Len(uname) >= UsernameMin /\ Len(uname) <= UsernameMax
                   /\ ~users[CStr(uname)].present
        /\ AuthCall("LS_AuthRegisterInteractive", uname, pwd1,
                    g_db /\ pwd1 = pwd2 /\ saltOk /\ kdfOk, kdfOk)
        /\ IF g_db /\ pwd1 = pwd2 /\ saltOk /\ kdfOk
           THEN LET row == Modern(salt, PBKDF2(pwd1, salt, IterCount), IterCount) IN
                /\ users' = [users EXCEPT ![CStr(uname)] = row]
                /\ created' = [created EXCEPT ![CStr(uname)] =
                                   Created("LS_AuthRegisterInteractive", pwd1, row)]
           ELSE UNCHANGED <<users, created>>
        /\ UNCHANGED <<g_db, g_isAuthed, g_currentUser, keyVars, notAuth>>

\* ok computed without comparing the derived hash with the stored one
LoginOk_NoCompare(row, pwd, kdfOk) ==
    IF ~row.present THEN FALSE
    ELSE IF row.pass_salt # 0 /\ row.pass_hash # <<>> /\ row.pass_iters > 0
    THEN kdfOk
    ELSE IF row.passhash # -1
    THEN fnv1a64(pwd) = row.passhash
    ELSE FALSE

\* what LS_AuthLoginInteractive computes as ok from the row it selected
LoginOk(row, pwd, kdfOk) ==
    IF ~row.present THEN FALSE
    ELSE IF row.pass_salt # 0 /\ row.pass_hash # <<>> /\ row.pass_iters > 0
    THEN kdfOk /\ ct_equal(row.pass_hash, PBKDF2(pwd, row.pass_salt, row.pass_iters))
    ELSE IF row.passhash # -1
    THEN fnv1a64(pwd) = row.passhash
    ELSE FALSE

\* a login that, having verified a legacy row, replaces it by a salted one
LS_AuthLoginInteractive_Rehash ==
    \E uname \in LoginNames, pwd \in Passwords \cup {Admin}, kdfOk \in BOOLEAN :
        LET row == users[CStr(uname)]
            ok == g_db /\ LoginOk(row, pwd, kdfOk)
        IN /\ AuthCall("LS_AuthLoginInteractive", uname, pwd, ok, kdfOk)
           /\ IF ok
              THEN /\ g_isAuthed' = TRUE
                   /\ g_currentUser' = Snprintf(CurrentUserSize, uname)
              ELSE UNCHANGED <<g_isAuthed, g_currentUser>>
           /\ users' = IF ok /\ row.passhash # -1
                       THEN [users EXCEPT ![CStr(uname)] =
                                Modern(1, PBKDF2(pwd, 1, IterCount), IterCount)]
                       ELSE users
           /\ UNCHANGED <<g_db, created, keyVars, notAuth>>

\* LS_AuthLoginInteractive() with the name and the password typed: the row
\* of the active user with that name is selected, ok is computed from it, and
\* on ok the session is set. (A debugger found by IsDebuggerPresent ends the
\* process before that.)
LS_AuthLoginInteractive ==
    \E uname \in LoginNames, pwd \in Passwords \cup {Admin}, kdfOk \in BOOLEAN :
        LET row == users[CStr(uname)]
            ok == g_db /\ LoginOk(row, pwd, kdfOk)
        IN /\ AuthCall("LS_AuthLoginInteractive", uname, pwd, ok, kdfOk)
           /\ IF ok
              THEN /\ g_isAuthed' = TRUE
                   /\ g_currentUser' = Snprintf(CurrentUserSize, uname)
              ELSE UNCHANGED <<g_isAuthed, g_currentUser>>
           /\ UNCHANGED <<users, g_db, created, keyVars, notAuth>>

\* g_isAuthed = false; g_currentUser[0] = '\0';
LS_AuthLogout ==
    /\ AuthCall("LS_AuthLogout", <<>>, <<>>, TRUE, TRUE)
    /\ g_isAuthed' = FALSE
    /\ g_currentUser' = <<>>
    /\ UNCHANGED <<users, g_db, created, keyVars, notAuth>>

\* return g_isAuthed;
LS_IsAuthenticated == g_isAuthed
\* return g_currentUser[0] ? g_currentUser : nullptr; (<<>> for nullptr)
LS_CurrentUsername == g_currentUser

\* ------------------------------------------------------------ specification
CallerStep(c) ==
    \/ CallInitializeRASP(c) \/ CallShutdownRASP(c) \/ CallPerformSecurityScan(c)
    \/ CallConfigureRASP(c) \/ CallStartDebuggerMonitoring(c)
    \/ CallStopDebuggerMonitoring(c) \/ CallFailClosedShutdown(c)
    \/ Return(c)
    \/ InitializeRASP(c) \/ InitSet(c) \/ InitIntegrity(c) \/ BootTimeIntegrityCheck(c)
    \/ InitMonitoring(c) \/ InitHooks(c) \/ InitHooksFound(c) \/ InitActivate(c)
    \/ PerformSecurityScan(c) \/ ScanDebugger(c) \/ ScanIntegrity(c)
    \/ ScanIntegrityFailed(c) \/ ScanHookCheck(c) \/ ScanHooksFound(c)
    \/ ScanCheckFailed(c) \/ ScanReturn(c)
    \/ ConfigureRASP(c)
    \/ StartTest(c) \/ StartStore(c) \/ StartAssign(c)

MonitorStep(m) ==
    \/ MonitorLoop(m) \/ MonitorDetected(m) \/ MonitorSleep(m)

\* the functions both kinds of thread run
SharedStep(t) ==
    \/ LogLock(t) \/ LogPush(t) \/ HandleCriticalEvent(t)
    \/ FailClosedShutdown(t) \/ FailClosedExit(t)
    \/ ShutdownRASP(t) \/ ShutdownClear(t)
    \/ StopTest(t) \/ StopStore(t) \/ StopJoin(t)

Next ==
    \/ \E c \in Callers : CallerStep(c)
    \/ \E m \in Mon : MonitorStep(m)
    \/ \E t \in Threads : SharedStep(t)

Spec == Init /\ [][Next]_vars

\* two callers use the log while a monitoring loop may be running
InitLog ==
    /\ InitWith([c \in Callers |-> "idle"])
    /\ logFileOpens \in BOOLEAN
    /\ InitKey
    /\ InitBuf
    /\ users = EmptyDB /\ InitSession
    /\ InitArith /\ opA = 0 /\ opB = 0
    /\ InitCrypto /\ plaintext = <<>> /\ key32 = NullKey /\ aad = <<>>

LogCallerStep(c) ==
    \/ CallLogSecurityEvent(c) \/ CallGetSecurityEventLog(c) \/ CallClearSecurityLog(c)
    \/ CallStartMonitor(c)
    \/ LogApiLock(c) \/ GetSecurityEventLog(c) \/ ClearSecurityLog(c)
    \/ StartTest(c) \/ StartStore(c) \/ StartAssign(c)
    \/ Return(c)

LogSharedStep(t) ==
    \/ LogLock(t) \/ LogPush(t) \/ HandleCriticalEvent(t)
    \/ ShutdownRASP(t) \/ FailClosedExit(t)

NextLog ==
    \/ LogFileChanges
    \/ \E c \in Callers : LogCallerStep(c)
    \/ \E m \in Mon : MonitorStep(m)
    \/ \E t \in Threads : LogSharedStep(t)

SpecLog == InitLog /\ [][NextLog]_vars

\* two callers verify the text section, scan for hooks and use the log
VerifyCallerStep(c) ==
    \/ CallVerifyTextSectionIntegrity(c) \/ VerifyCall(c) \/ VerifyReturn(c)
    \/ CallDetectIATHooks(c) \/ CallDetectPLTHooks(c)
    \/ DetectHooksCall(c) \/ DetectHooksReturn(c)
    \/ CallClearSecurityLog(c) \/ LogApiLock(c) \/ ClearSecurityLog(c)
    \/ Return(c)

NextVerify ==
    \/ \E c \in Callers : VerifyCallerStep(c)
    \/ \E t \in Threads : LogLock(t) \/ LogPush(t)

SpecVerify == InitLog /\ [][NextVerify]_vars

\* the thread that sets up and uses the application key
NextKey ==
    \/ AppKey_InitFromEnvOrPrompt \/ KeyResize \/ KeyDerive
    \/ AppKey_Get \/ AppKey_IsReady \/ KeyReturn

SpecKey == Init /\ [][NextKey]_vars

\* the owner of the two SecureBuffer objects
NextBuf ==
    \/ \E o \in Objs, n \in 0..MaxSize : Construct(o, n)
    \/ \E o \in Objs, other \in Objs : MoveConstruct(o, other)
    \/ \E o \in Objs, other \in Objs : MoveAssign(o, other)
    \/ \E o \in Objs : Destroy(o)
    \/ \E o \in Objs, n \in 0..MaxSize : Resize(o, n)
    \/ \E o \in Objs : Cleanse(o)
    \/ \E o \in Objs : WriteData(o)

SpecBuf == Init /\ [][NextBuf]_vars

\* a value, a key and an aad, and what happens to the value in its column
InitCipher ==
    /\ InitWith([c \in Callers |-> IF c = 0 THEN "idle" ELSE "off"])
    /\ logFileOpens = TRUE
    /\ InitKey
    /\ InitBuf
    /\ users = EmptyDB /\ InitSession
    /\ InitArith /\ opA = 0 /\ opB = 0
    /\ InitCrypto
    /\ plaintext \in Plaintexts
    /\ key32 \in Keys \cup {NullKey}
    /\ aad \in AADs

NextCipher == Seal \/ StoreRaw \/ Tamper \/ CallDecryptFromDB \/ CallDecryptMaybe

SpecCipher == InitCipher /\ [][NextCipher]_vars

\* the program starts on a database file it finds or creates
InitAuth ==
    /\ InitWith([c \in Callers |-> IF c = 0 THEN "idle" ELSE "off"])
    /\ logFileOpens = TRUE
    /\ InitKey
    /\ InitBuf
    /\ users \in Databases /\ InitSession
    /\ InitArith /\ opA = 0 /\ opB = 0
    /\ InitCrypto /\ plaintext = <<>> /\ key32 = NullKey /\ aad = <<>>

NextAuth ==
    LS_Init \/ LS_AuthRegisterInteractive \/ LS_AuthLoginInteractive \/ LS_AuthLogout

SpecAuth == InitAuth /\ [][NextAuth]_vars

\* the two functions on every pair of ints
InitArithmetic ==
    /\ InitWith([c \in Callers |-> IF c = 0 THEN "idle" ELSE "off"])
    /\ logFileOpens = TRUE
    /\ InitKey
    /\ InitBuf
    /\ users = EmptyDB /\ InitSession
    /\ InitArith /\ opA \in Ints /\ opB \in Ints
    /\ InitCrypto /\ plaintext = <<>> /\ key32 = NullKey /\ aad = <<>>

NextArithmetic == CallObfuscateAdd \/ CallObfuscateMultiply

SpecArithmetic == InitArithmetic /\ [][NextArithmetic]_vars

\* ------------------------------------------------------------- properties
\* an event of this type and severity is in the security log
Logged(type, sev) ==
    \E i \in DOMAIN g_eventLog : g_eventLog[i] = Event(type, sev)

\* the loop of monitoring thread m has not exited: the thread was created and
\* its function has not returned
LoopRunning(m) == pc[m] \notin {"none", "done"}

\* caller c is back from a call of op, which has not yet been dropped
Returned(c, op) == pc[c] = "ret" /\ call[c].op = op

\* C1: from Inactive with enableChecksumVerification set, a call
\* InitializeRASP(baseline, false) whose non-empty baseline differs from the
\* digest of the image does not end the process, and it returns false with a
\* CHECKSUM_MISMATCH event of severity 3 in the log.
C1_MismatchReturnsFalse ==
    \A c \in Callers :
        (/\ call[c].op = "InitializeRASP"
         /\ call[c].checksum \notin CalculateTextSectionChecksum
         /\ ~call[c].autoTerm
         /\ Logged("CHECKSUM_MISMATCH", 3)
         /\ ~Logged("CHECKSUM_CALCULATION_FAILED", 3))
        => /\ pc[c] # "exited"
           /\ pc[c] = "ret" => ret[c] = "false"

\* C2: whichever thread runs FailClosedShutdown, and in whichever controller
\* state, when it ends the process the FAIL_CLOSED_SHUTDOWN event is in the log
\* and no monitoring loop (other than the one that is exiting) is still running.
C2_ExitStopsMonitoring ==
    \A t \in Threads :
        pc[t] = "exited"
        => /\ Logged("FAIL_CLOSED_SHUTDOWN", 3)
           /\ \A m \in Mon \ {t} : ~LoopRunning(m)

\* C3: a monitoring thread that runs the fail-closed path (which it only
\* enters with autoTerminateOnThreat set, and which only reaches
\* StopDebuggerMonitoring when the controller is Active) never fails joining
\* itself there: the path is never cut short by std::terminate before std::exit.
C3_MonitorNeverJoinsItself ==
    \A m \in Mon : pc[m] # "terminate"

\* C4: whenever a caller's StopDebuggerMonitoring returns, every monitoring
\* loop has exited and its thread was joined (no thread is left that could
\* check, call back or log afterwards) and the flag is clear; and the call
\* that finds the flag already clear changes nothing but the caller's position.
C4_StopJoinsLoop ==
    [][\A c \in Callers :
        (call[c].op = "StopDebuggerMonitoring" /\ pc[c] # "ret" /\ pc'[c] = "ret")
        => /\ \A m \in Mon : pc'[m] = "none"
           /\ g_debuggerMonitorThread' = NoThread
           /\ ~g_debuggerMonitorRunning'
           /\ (pc[c] = "stop_test" /\ ~g_debuggerMonitorRunning)
              => /\ UNCHANGED <<flags, cfgs, logs, captured>>
                 /\ \A m \in Mon : pc'[m] = pc[m]]_vars

\* C5: with one caller thread, at most one monitoring loop is running at any
\* time, and a StartDebuggerMonitoring call that begins while a loop is
\* running does not get as far as creating a thread.
C5_AtMostOneLoop ==
    /\ proc = "running" => Cardinality({m \in Mon : LoopRunning(m)}) <= 1
    /\ \A c \in Callers :
        At(c, "start_store") => \A m \in Mon : ~LoopRunning(m)

\* C6: the step a caller's InitializeRASP takes when it finds the controller
\* Active returns false to the caller and changes nothing else: the active flag
\* stays set, g_config, the expected checksum, the event log, the monitoring
\* flag and the thread handle keep their values, the call goes on to no check,
\* and every monitoring thread, its callback and its interval stay as they were.
C6_InitWhileActiveIsNoOp ==
    [][\A c \in Callers :
        (pc[c] = "init" /\ g_raspActive /\ pc'[c] # pc[c])
        => /\ pc'[c] = "ret"
           /\ ret'[c] = "false"
           /\ g_raspActive'
           /\ UNCHANGED <<g_config, g_expectedChecksum, g_eventLog,
                          g_debuggerMonitorRunning, g_debuggerMonitorThread>>
           /\ \A m \in Mon :
                pc'[m] = pc[m] /\ cb'[m] = cb[m] /\ interval'[m] = interval[m]]_vars

\* a caller's InitializeRASP found the controller Active and returned false
C6_Witness ==
    \E c \in Callers :
        Returned(c, "InitializeRASP") /\ ret[c] = "false" /\ g_raspActive

\* C7: when a caller's ShutdownRASP that found the controller Active returns,
\* the active flag is clear and every monitoring thread was stopped and joined;
\* no step of the call removes an event from the log; and the call that finds
\* the controller Inactive changes nothing but the caller's position.
C7_ShutdownStopsAndKeepsLog ==
    [][\A c \in Callers :
        (call[c].op = "ShutdownRASP" /\ pc'[c] # pc[c])
        => /\ Len(g_eventLog') >= Len(g_eventLog)
           /\ SubSeq(g_eventLog', 1, Len(g_eventLog)) = g_eventLog
           /\ (pc[c] = "sd_clear" /\ pc'[c] = "ret")
              => /\ ~g_raspActive'
                 /\ ~g_debuggerMonitorRunning'
                 /\ \A m \in Mon : pc'[m] = "none"
           /\ (pc[c] = "sd_test" /\ ~g_raspActive)
              => /\ pc'[c] = "ret"
                 /\ UNCHANGED <<flags, cfgs, logs, captured>>
                 /\ \A m \in Mon : pc'[m] = pc[m]]_vars

\* C8: a PerformSecurityScan that ran its checks is about to return true exactly
\* when none of them failed, it gets there after a failed check only if
\* autoTerminateOnThreat is not set, and the controller is then still Active;
\* and a caller's InitializeRASP or PerformSecurityScan ends the process after a
\* failed check only if autoTerminateOnThreat is set (one rule for both).
C8_ScanAndInitSameRule ==
    \A c \in Callers :
        /\ At(c, "scan_ret")
           => /\ call[c].allPassed <=> ~call[c].failed
              /\ call[c].failed => ~g_config.autoTerminateOnThreat
              /\ g_raspActive
        /\ (pc[c] = "exited" /\ call[c].op \in {"InitializeRASP", "PerformSecurityScan"})
           => g_config.autoTerminateOnThreat

\* C9: g_config is read-only while the controller is Active: no step that
\* starts and ends with the active flag set changes any of its six fields.
C9_ConfigReadOnlyWhileActive ==
    [][(g_raspActive /\ g_raspActive') => g_config' = g_config]_vars

\* thread t is about to write g_config with no lock held
WritesConfig(t) == pc[t] \in {"configure", "init_set"}
\* thread t is about to read a field of g_config: autoTerminateOnThreat in the
\* monitor loop, logFilePath inside LogSecurityEvent
ReadsConfig(t) == pc[t] \in {"m_detected", "log_push"}

\* C10: no monitoring thread reads g_config while a caller thread writes it;
\* the event log is only touched by the holder of g_logMutex; and no thread
\* waits for g_logMutex while holding it.
C10_OnlyLogSharedUnderMutex ==
    /\ proc = "running"
       => \A m \in Mon, c \in Callers : ~(ReadsConfig(m) /\ WritesConfig(c))
    /\ \A t \in Threads : At(t, "log_push") => g_logMutex = t
    /\ \A t \in Threads : At(t, "log_lock") => g_logMutex # t


\* ---------------------------------------------------------------- the log
\* C11: whatever the interleaving of LogSecurityEvent calls (from the
\* monitoring loop and from callers) with GetSecurityEventLog, the vector a
\* GetSecurityEventLog call returns is exactly the sequence of events whose
\* append completed since the last ClearSecurityLog, in completion order, and
\* no later step (an append completing afterwards included) alters it.
C11_SnapshotIsCompletedAppends ==
    [][\A c \in Callers :
          IF pc[c] = "get_copy" /\ pc'[c] = "ret"
          THEN snap'[c] = appended /\ appended' = appended
          ELSE snap'[c] = snap[c]]_vars

\* a caller holds a snapshot with an event of the monitoring loop and an event
\* of a caller in it, and an append has completed since
C11_Witness ==
    \E c \in Callers :
        /\ Returned(c, "GetSecurityEventLog")
        /\ \E i, j \in 1..Len(snap[c]) :
              /\ snap[c][i].eventType = "DEBUGGER_DETECTED"
              /\ snap[c][j] \in TestEvents
        /\ Len(appended) > Len(snap[c])
        /\ SubSeq(appended, 1, Len(snap[c])) = snap[c]
\* C12: when the log file cannot be opened, LogSecurityEvent still appends the
\* event to the in-memory log, releases the lock and returns; a caller's own
\* call returns false, the process keeps running, and nothing else of the
\* controller's state differs from what a successful write leaves.
C12_OpenFailureOnlyReturnsFalse ==
    [][\A t \in Threads :
          (pc[t] = "log_push" /\ pc'[t] # "log_push" /\ ~logFileOpens) =>
              /\ g_eventLog' = Append(g_eventLog, evt[t])
              /\ proc' = "running"
              /\ g_logMutex' = NoThread
              /\ pc'[t] = Head(stack[t])
              /\ ret' = LogResult(t, FALSE)
              /\ UNCHANGED <<flags, cfgs, term, captured, call, counters, snap,
                             logFileOpens>>]_vars

\* a caller's LogSecurityEvent returned false while the process runs on, and
\* the log holds a caller's event with a further event appended behind it
C12_Witness ==
    \E c \in Callers :
        /\ Returned(c, "LogSecurityEvent")
        /\ ret[c] = "false"
        /\ proc = "running"
        /\ \E i, j \in 1..Len(g_eventLog) :
              i < j /\ g_eventLog[i] \in TestEvents
\* ------------------------------------------------------ the application key
\* C13: on every path on which AppKey_InitFromEnvOrPrompt returns after it
\* obtained a non-empty passphrase, derivation succeeded or not, the passphrase
\* buffer is zero-filled when the function returns.
C13_PassphraseWipedOnReturn ==
    (/\ kpc = "ret"
     /\ kres.op = "AppKey_InitFromEnvOrPrompt"
     /\ kres.err = ""
     /\ passphrase # <<>>) => passphrase = Zeros(Len(passphrase))

\* C14: as long as no call of AppKey_InitFromEnvOrPrompt has returned true,
\* failed attempts included, between calls the flag is unset and the key
\* buffer holds no byte, AppKey_Get fails with the not-initialized error and
\* AppKey_IsReady returns false.
C14_NoKeyBeforeInit ==
    ~initReturnedTrue =>
        /\ ~g_appKeyInitialized
        /\ kpc \in {"idle", "ret"} => g_appKey = <<>>
        /\ (kpc = "ret" /\ kres.op = "AppKey_Get") =>
               (~kres.ok /\ kres.err = "runtime_error" /\ kres.key = <<>>)
        /\ (kpc = "ret" /\ kres.op = "AppKey_IsReady") => ~kres.ok

\* a derivation has failed, and after it AppKey_Get has thrown
C14_Witness ==
    /\ ~initReturnedTrue
    /\ nKeyOps >= 2
    /\ kpc = "ret"
    /\ kres.op = "AppKey_Get"
    /\ kres.err = "runtime_error"

\* C15: once a call of AppKey_InitFromEnvOrPrompt has returned true, every
\* later call returns true at once, reading no passphrase and deriving
\* nothing, and AppKey_Get returns the same 32 bytes every time.
C15_InitOnceKeyStable ==
    [][initReturnedTrue =>
          /\ g_appKey' = g_appKey /\ g_appKey = firstKey /\ Len(g_appKey) = KeySize
          /\ g_appKeyInitialized'
          /\ kpc' \in {"idle", "ret"} /\ passphrase' = <<>>
          /\ (kpc = "idle" /\ kres'.op = "AppKey_InitFromEnvOrPrompt") =>
                 (kpc' = "ret" /\ kres'.ok)
          /\ (kpc = "idle" /\ kres'.op = "AppKey_Get") =>
                 (kres'.ok /\ kres'.key = firstKey)]_vars

\* after the call that returned true and a call made since, a further call of
\* AppKey_InitFromEnvOrPrompt has returned true with no passphrase read and
\* the key as it was
C15_Witness ==
    /\ initReturnedTrue
    /\ nKeyOps >= 3
    /\ kpc = "ret"
    /\ kres = InitResult(TRUE)
    /\ passphrase = <<>>
    /\ g_appKey = DeriveKeyFromPassphrase(<<115, 51>>)
\* ------------------------------------------------------------ SecureBuffer
\* C16: whenever a SecureBuffer lets go of a region (resize to another size,
\* resize(0), move-assignment into a non-empty buffer, destruction), every
\* byte of the region is zero when it is freed: no freed region holds a
\* non-zero byte, and no live region is without its owner.
C16_RegionZeroedBeforeFree ==
    \A r \in 1..MaxRegions :
        /\ heap[r].st = "freed" => heap[r].bytes = Zeros(Len(heap[r].bytes))
        /\ heap[r].st = "live" => \E o \in Objs : bufs[o].alive /\ bufs[o].data = r

\* each of the four operations has freed a region that held non-zero bytes
C16_Witness ==
    released = {"resize", "resize(0)", "operator=", "~SecureBuffer"}

\* C17: when the allocation fails in the SecureBuffer constructor or in
\* resize, the operation reports an allocation error without an exception
\* leaving it, and the buffer is empty afterwards.
C17_AllocFailureReportedBufferEmpty ==
    bres.allocFailed =>
        /\ bres.thrown = ""
        /\ bufs[bres.obj].data = 0 /\ bufs[bres.obj].size = 0
\* ------------------------------------------------------------ field cipher
\* DecryptFromDB was called on what EncryptForDB returned, as it returned it
Unsealing == origin = "EncryptForDB" /\ dfn = "DecryptFromDB" /\ ~tampered

C19_TamperOrAadFails ==
    dfn = "DecryptFromDB" =>
        /\ result \notin {<<>>, DecryptError} =>
               (origin = "EncryptForDB" /\ ~tampered /\ dkey = key32 /\ daad = aad
                /\ result = plaintext)
        /\ (origin = "EncryptForDB" /\ sealed # <<>> /\ dkey # NullKey
            /\ (tampered \/ daad # aad)) => result = DecryptError

\* a sealed value one byte of which was changed was given to DecryptFromDB
\* with the key and aad it was sealed under, and the error came back
C19_Witness ==
    /\ origin = "EncryptForDB" /\ dfn = "DecryptFromDB"
    /\ tampered /\ dkey = key32 /\ daad = aad
    /\ Len(plaintext) = MaxLen
    /\ result = DecryptError

\* C20: a string that does not begin with "GCM1:" is returned unchanged, with
\* no error, by crypto::DecryptFromDB and by decryptMaybe.
C20_NoPrefixPassthrough ==
    (dfn \in {"DecryptFromDB", "decryptMaybe"} /\ ~HasPrefix(sealed)) => result = sealed

\* what DecryptFromDB returns when a value with the prefix fails to decrypt:
\* return "" (decodedLen < 28, no cipher context), return "[DECRYPT-ERROR]"
FailureResults == {<<>>, DecryptError}

\* C21: a failure of DecryptFromDB on a value with the prefix can be told from
\* every successful decryption: for no plaintext p and aad a is
\* DecryptFromDB(EncryptForDB(p, key, a), key, a), the decryption of a sealed
\* value under its own key and aad, one of the failure results
C21_FailureDistinguishable ==
    (Unsealing /\ HasPrefix(sealed) /\ dkey = key32 /\ daad = aad) =>
        result \notin FailureResults

C26_HookCountNonNegative ==
    \A c \in Callers :
        Returned(c, "DetectIATHooks") \/ Returned(c, "DetectPLTHooks") =>
            /\ call[c].hookCount >= 0
            /\ call[c].hookCount > 0 =>
                   /\ evt[c].severity = 3
                   /\ evt[c].eventType \in {"IAT_HOOK_DETECTED", "PLT_HOOK_DETECTED"}
                   /\ Logged(evt[c].eventType, 3)

\* the number of events of a type in the log
CountLogged(type) ==
    Cardinality({i \in DOMAIN g_eventLog : g_eventLog[i].eventType = type})

\* C25: from Inactive with an empty log and enableChecksumVerification set,
\* the first call InitializeRASP(baseline, false) whose baseline is the digest
\* the verification computes does not end the process, and it returns true
\* with the controller active and exactly one INTEGRITY_CHECK_PASSED event in
\* the log
C25_MatchingBaselineActivates ==
    \A c \in Callers :
        (/\ nOps = 1
         /\ call[c].op = "InitializeRASP"
         /\ call[c].checksum # ""
         /\ ~call[c].autoTerm
         /\ Logged("INTEGRITY_CHECK_PASSED", 1))
        => /\ proc = "running"
           /\ pc[c] = "ret" =>
                  /\ ret[c] = "true"
                  /\ g_raspActive
                  /\ CountLogged("INTEGRITY_CHECK_PASSED") = 1

\* the first call, with the matching baseline and no termination asked for,
\* has returned true, and the monitoring loop it started has logged a debugger
C25_Witness ==
    \E c \in Callers :
        /\ nOps = 1 /\ Returned(c, "InitializeRASP")
        /\ call[c].checksum \in CalculateTextSectionChecksum \ {""}
        /\ ~call[c].autoTerm
        /\ ret[c] = "true" /\ g_raspActive
        /\ Logged("INTEGRITY_CHECK_PASSED", 1)
        /\ Logged("DEBUGGER_DETECTED", 3)

\* C29: each iteration of a monitoring loop first sleeps for the interval,
\* then observes the stop flag, and runs the debugger check only if stopping
\* was not requested: every step in which a loop runs its check is taken by a
\* loop that has slept since it started or last tested the flag, with
\* g_debuggerMonitorRunning set
C29_SleepBeforeCheck ==
    [][\A m \in Mon :
          (pc[m] = "m_loop" /\ pc'[m] \in {"log_lock", "m_sleep"}) =>
              slept[m] /\ g_debuggerMonitorRunning]_vars

\* C30: when two threads call StartDebuggerMonitoring concurrently while no
\* loop is running, one call starts a monitoring thread and the other is a
\* no-op: at most one thread is created, and the handle is never assigned
\* while it holds a running thread (which would end the process)
C30_ConcurrentStartsOneThread ==
    (/\ \A c \in Callers : call[c].op = "StartDebuggerMonitoring"
     /\ nDetect = 0)
    => /\ Cardinality({m \in Mon : pc[m] # "none"}) <= 1
       /\ \A c \in Callers : pc[c] = "start_assign" => g_debuggerMonitorThread = NoThread
       /\ proc = "running"

C23_RecordsKeepFormat ==
    [][\A n \in StoredNames :
          /\ users[n].present => users'[n] = users[n]
          /\ (~users[n].present /\ users'[n].present) =>
                 /\ users'[n].passhash = -1
                 /\ users'[n].pass_salt \in Salts
                 /\ users'[n].pass_hash # <<>>
                 /\ users'[n].pass_iters = IterCount]_vars

\* the legacy user has logged in and its row is the one the database came with
C23_Witness ==
    /\ lres.op = "LS_AuthLoginInteractive" /\ lres.ok
    /\ created[CStr(lres.uname)].by = "before"
    /\ users[CStr(lres.uname)] = created[CStr(lres.uname)].row
    /\ users[CStr(lres.uname)].passhash # -1

C28_ObfuscatedArithmeticExact ==
    /\ opFn = "ObfuscateMultiply" => opResult = Wrap(opA * opB)
    /\ opFn = "ObfuscateAdd" => opResult = Wrap(opA + opB)

====
